---- MODULE Spec2Model ----
(***************************************************************************)
(* A model of crossterm's terminal-event engine.                           *)
(*                                                                         *)
(*  - Byte Parser (parse_event): a pure function from a pending byte       *)
(*    buffer and a "more input available" flag to Some(event) / None       *)
(*    (need more) / Err (invalid).                                         *)
(*  - Incremental Parser State (Parser): pending buffer + FIFO of decoded  *)
(*    events, fed by advance, drained by next.                             *)
(*  - POSIX Event Source (UnixInternalEventSource): try_read multiplexes   *)
(*    the tty, the SIGWINCH channel and the wake self-pipe; wake writes    *)
(*    one byte to the self-pipe.                                           *)
(*  - Event Queue (poll / read) on top of try_read.                        *)
(*                                                                         *)
(* Two specifications:  Spec  is the event source running against an       *)
(* environment that types bytes, resizes the window, hangs up the tty and  *)
(* calls wake from another thread;  SpecParser  feeds the Parser with      *)
(* byte strings drawn from bounded sets, in every chunking.                *)
(***************************************************************************)
EXTENDS Integers, Sequences, FiniteSets, TLC

(***************************************************************************)
(* Bytes that have a meaning to the parser.                                *)
(***************************************************************************)
Byte ==
    [ESC |-> 27, CR |-> 13, TAB |-> 9, DEL |-> 127, NUL |-> 0,
     LBRACKET |-> 91, O |-> 79, M |-> 77, m |-> 109, LT |-> 60,
     SEMI |-> 59, TILDE |-> 126, R |-> 82, SPACE |-> 32]

IsDigit(b) == b \in 48..57

(***************************************************************************)
(* Events.  One record shape for every event so that events compare.      *)
(*   Key:            code is the KeyCode variant, a the character code or  *)
(*                   the function-key index, mods the ModifierSet          *)
(*   Mouse:          code is Press<Button> / Release / Hold, a = column,   *)
(*                   b = row                                               *)
(*   CursorPosition: internal-only event, a = x, b = y                     *)
(*   Resize:         a = width, b = height                                 *)
(***************************************************************************)
KeyEv(code, ch, mods) ==
    [t |-> "Key", code |-> code, a |-> ch, b |-> 0, mods |-> mods]

MouseEv(kind, col, row) ==
    [t |-> "Mouse", code |-> kind, a |-> col, b |-> row, mods |-> {}]

CursorPositionEv(x, y) ==
    [t |-> "CursorPosition", code |-> "Report", a |-> x, b |-> y, mods |-> {}]

ResizeEv(w, h) ==
    [t |-> "Resize", code |-> "Resize", a |-> w, b |-> h, mods |-> {}]

KeyEsc == KeyEv("Esc", 0, {})

(* Result<Option<InternalEvent>> of the byte parser. *)
Some(ev) == [kind |-> "Some", ev |-> ev]

None == [kind |-> "None", ev |-> KeyEv("Null", 0, {})]

Err == [kind |-> "Err", ev |-> KeyEv("Null", 0, {})]

(***************************************************************************)
(* Numeric parameters of CSI sequences.                                    *)
(***************************************************************************)
RECURSIVE NumVal(_)
NumVal(s) ==
    IF s = <<>> THEN 0
    ELSE 10 * NumVal(SubSeq(s, 1, Len(s) - 1)) + (s[Len(s)] - 48)

(* A u16 parameter; -1 when it is empty, not a number or out of range. *)
ParseU16(s) ==
    IF s = <<>> \/ (\E i \in 1..Len(s) : ~IsDigit(s[i])) \/ Len(s) > 5 THEN -1
    ELSE IF NumVal(s) > 65535 THEN -1
    ELSE NumVal(s)

RECURSIVE SplitOn(_, _)
SplitOn(s, sep) ==
    IF \A i \in 1..Len(s) : s[i] # sep THEN <<s>>
    ELSE LET i == CHOOSE k \in 1..Len(s) :
                      s[k] = sep /\ \A j \in 1..(k - 1) : s[j] # sep
         IN  <<SubSeq(s, 1, i - 1)>> \o SplitOn(SubSeq(s, i + 1, Len(s)), sep)

(* The parameter list between positions lo and hi of the buffer. *)
Params(buffer, lo, hi) ==
    LET parts == SplitOn(SubSeq(buffer, lo, hi), Byte.SEMI)
    IN  [i \in 1..Len(parts) |-> ParseU16(parts[i])]

ParamBytesOnly(buffer, lo) ==
    \A i \in lo..Len(buffer) : IsDigit(buffer[i]) \/ buffer[i] = Byte.SEMI

(* xterm modifier parameter: value - 1 is a bit mask Shift=1, Alt=2, Control=4. *)
Modifiers(p) ==
    LET mask == p - 1
    IN  (IF mask % 2 = 1 THEN {"SHIFT"} ELSE {})
        \cup (IF (mask \div 2) % 2 = 1 THEN {"ALT"} ELSE {})
        \cup (IF (mask \div 4) % 2 = 1 THEN {"CONTROL"} ELSE {})

ValidModifier(p) == p \in 1..8

(***************************************************************************)
(* UTF-8 decoding of one character.                                        *)
(***************************************************************************)
Utf8Need(b) ==
    IF b < 128 THEN 1
    ELSE IF b \in 194..223 THEN 2
    ELSE IF b \in 224..239 THEN 3
    ELSE IF b \in 240..244 THEN 4
    ELSE 0

Utf8CodePoint(s) ==
    CASE Len(s) = 1 -> s[1]
      [] Len(s) = 2 -> (s[1] - 192) * 64 + (s[2] - 128)
      [] Len(s) = 3 -> (s[1] - 224) * 4096 + (s[2] - 128) * 64 + (s[3] - 128)
      [] OTHER -> (s[1] - 240) * 262144 + (s[2] - 128) * 4096
                  + (s[3] - 128) * 64 + (s[4] - 128)

(* Some(Char) / None (lead byte seen, continuation bytes missing) / Err. *)
parse_utf8_char(s, mods) ==
    LET need == Utf8Need(s[1])
    IN  IF need = 0 \/ Len(s) > need THEN Err
        ELSE IF \E i \in 2..Len(s) : s[i] \notin 128..191 THEN Err
        ELSE IF Len(s) < need THEN None
        ELSE Some(KeyEv("Char", Utf8CodePoint(s), mods))

(***************************************************************************)
(* CSI sequences: ESC [ ...                                                *)
(***************************************************************************)
CsiLetterKey(c) ==
    CASE c = 65 -> "Up"
      [] c = 66 -> "Down"
      [] c = 67 -> "Right"
      [] c = 68 -> "Left"
      [] c = 72 -> "Home"
      [] c = 70 -> "End"
      [] OTHER -> "None"

CsiTildeKey(n) ==
    CASE n \in {1, 7} -> "Home"
      [] n = 2 -> "Insert"
      [] n = 3 -> "Delete"
      [] n \in {4, 8} -> "End"
      [] n = 5 -> "PageUp"
      [] n = 6 -> "PageDown"
      [] OTHER -> "None"

(* Legacy X10 mouse: ESC [ M Cb Cx Cy, a fixed 3-byte payload offset by 32. *)
parse_csi_x10_mouse(buffer) ==
    IF Len(buffer) < 6 THEN None
    ELSE IF Len(buffer) > 6 \/ \E i \in 4..6 : buffer[i] < 32 THEN Err
    ELSE LET cb  == buffer[4] - 32
             col == IF buffer[5] > 32 THEN buffer[5] - 33 ELSE 0
             row == IF buffer[6] > 32 THEN buffer[6] - 33 ELSE 0
         IN  IF (cb \div 64) % 2 = 1
             THEN Some(MouseEv(IF cb % 2 = 0 THEN "PressWheelUp"
                                ELSE "PressWheelDown", col, row))
             ELSE CASE cb % 4 = 0 -> Some(MouseEv("PressLeft", col, row))
                    [] cb % 4 = 1 -> Some(MouseEv("PressMiddle", col, row))
                    [] cb % 4 = 2 -> Some(MouseEv("PressRight", col, row))
                    [] OTHER      -> Some(MouseEv("Release", col, row))

(* SGR mouse: ESC [ < Cb ; Cx ; Cy (M | m). *)
parse_csi_sgr_mouse(buffer) ==
    LET last == buffer[Len(buffer)]
    IN  IF Len(buffer) > 3 /\ last \in {Byte.M, Byte.m}
        THEN LET p == Params(buffer, 4, Len(buffer) - 1)
             IN  IF Len(p) # 3 \/ (\E i \in 1..3 : p[i] < 0) \/ p[2] = 0 \/ p[3] = 0
                 THEN Err
                 ELSE LET col == p[2] - 1
                          row == p[3] - 1
                      IN  IF last = Byte.m THEN Some(MouseEv("Release", col, row))
                          ELSE CASE p[1] = 0  -> Some(MouseEv("PressLeft", col, row))
                                 [] p[1] = 1  -> Some(MouseEv("PressMiddle", col, row))
                                 [] p[1] = 2  -> Some(MouseEv("PressRight", col, row))
                                 [] p[1] = 32 -> Some(MouseEv("Hold", col, row))
                                 [] p[1] = 64 -> Some(MouseEv("PressWheelUp", col, row))
                                 [] p[1] = 65 -> Some(MouseEv("PressWheelDown", col, row))
                                 [] OTHER     -> Err
        ELSE IF ParamBytesOnly(buffer, 4) THEN None
        ELSE Err

(* Numbered sequences: ESC [ n ~, ESC [ n ; m ~, ESC [ 1 ; m X, ESC [ r ; c R. *)
parse_csi_numbered(buffer) ==
    LET last == buffer[Len(buffer)]
    IN  IF ParamBytesOnly(buffer, 3) THEN None
        ELSE IF ~ParamBytesOnly(SubSeq(buffer, 1, Len(buffer) - 1), 3) THEN Err
        ELSE LET p == Params(buffer, 3, Len(buffer) - 1)
             IN  IF \E i \in 1..Len(p) : p[i] < 0 THEN Err
                 ELSE IF last = Byte.TILDE
                 THEN IF Len(p) \in 1..2 /\ CsiTildeKey(p[1]) # "None"
                         /\ (Len(p) = 2 => ValidModifier(p[2]))
                      THEN Some(KeyEv(CsiTildeKey(p[1]), 0,
                                      IF Len(p) = 2 THEN Modifiers(p[2]) ELSE {}))
                      ELSE Err
                 ELSE IF last = Byte.R
                 THEN IF Len(p) = 2 /\ p[1] > 0 /\ p[2] > 0
                      THEN Some(CursorPositionEv(p[2] - 1, p[1] - 1))
                      ELSE Err
                 ELSE IF CsiLetterKey(last) # "None"
                 THEN IF Len(p) = 2 /\ p[1] = 1 /\ ValidModifier(p[2])
                      THEN Some(KeyEv(CsiLetterKey(last), 0, Modifiers(p[2])))
                      ELSE Err
                 ELSE Err

parse_csi(buffer) ==
    IF Len(buffer) = 2 THEN None
    ELSE LET c == buffer[3]
         IN  IF CsiLetterKey(c) # "None"
             THEN IF Len(buffer) = 3 THEN Some(KeyEv(CsiLetterKey(c), 0, {})) ELSE Err
             ELSE IF c = Byte.M THEN parse_csi_x10_mouse(buffer)
             ELSE IF c = Byte.LT THEN parse_csi_sgr_mouse(buffer)
             ELSE IF IsDigit(c) THEN parse_csi_numbered(buffer)
             ELSE Err

(***************************************************************************)
(* The Byte Parser.                                                        *)
(***************************************************************************)
parse_event(buffer, input_available) ==
    IF buffer = <<>> THEN None
    ELSE LET c == buffer[1]
         IN  IF c = Byte.ESC
             THEN IF Len(buffer) = 1
                  THEN IF input_available THEN None ELSE Some(KeyEsc)
                  ELSE IF buffer[2] = Byte.O
                  THEN IF Len(buffer) = 2 THEN None
                       ELSE IF Len(buffer) = 3 /\ buffer[3] \in 80..83
                       THEN Some(KeyEv("F", 1 + buffer[3] - 80, {}))
                       ELSE Err
                  ELSE IF buffer[2] = Byte.LBRACKET THEN parse_csi(buffer)
                  ELSE parse_utf8_char(SubSeq(buffer, 2, Len(buffer)), {"ALT"})
             ELSE IF c \in (0..31) \cup {Byte.DEL}
             THEN IF Len(buffer) > 1 THEN Err
                  ELSE CASE c = Byte.CR   -> Some(KeyEv("Enter", 0, {}))
                         [] c = Byte.TAB  -> Some(KeyEv("Tab", 0, {}))
                         [] c = Byte.DEL  -> Some(KeyEv("Backspace", 0, {}))
                         [] c = Byte.NUL  -> Some(KeyEv("Null", 0, {}))
                         [] c \in 1..26   -> Some(KeyEv("Char", c + 96, {"CONTROL"}))
                         [] c \in 28..31  -> Some(KeyEv("Char", c + 24, {"CONTROL"}))
                         [] OTHER         -> Err
             ELSE parse_utf8_char(buffer, {})

(***************************************************************************)
(* The Incremental Parser State: Parser { buffer, internal_events }.       *)
(***************************************************************************)
ParserDefault == [buffer |-> <<>>, internal_events |-> <<>>]

(* unix.rs:233 -- 'more' for the byte at 0-based index idx of a chunk of len bytes. *)
advance_more_chunk_only(idx, len, more) == idx + 1 < len

advance_more_off_by_one(idx, len, more) == idx < len \/ more

advance_more(idx, len, more) == idx + 1 < len \/ more

(* unix.rs:235-251 -- push one byte and act on the byte parser's answer. *)
advance_byte_keep_on_err(p, byte, more) ==
    LET buf == Append(p.buffer, byte)
        r   == parse_event(buf, more)
    IN  IF r.kind = "Some"
        THEN [buffer |-> <<>>, internal_events |-> Append(p.internal_events, r.ev)]
        ELSE [p EXCEPT !.buffer = buf]

advance_byte_err_keeps_byte(p, byte, more) ==
    LET buf == Append(p.buffer, byte)
        r   == parse_event(buf, more)
    IN  CASE r.kind = "Some" ->
               [buffer |-> <<>>, internal_events |-> Append(p.internal_events, r.ev)]
          [] r.kind = "None" -> [p EXCEPT !.buffer = buf]
          [] OTHER -> [p EXCEPT !.buffer = <<byte>>]

advance_byte_keep_on_some(p, byte, more) ==
    LET buf == Append(p.buffer, byte)
        r   == parse_event(buf, more)
    IN  CASE r.kind = "Some" ->
               [buffer |-> buf, internal_events |-> Append(p.internal_events, r.ev)]
          [] r.kind = "None" -> [p EXCEPT !.buffer = buf]
          [] OTHER -> [p EXCEPT !.buffer = <<>>]

advance_byte(p, byte, more) ==
    LET buf == Append(p.buffer, byte)
        r   == parse_event(buf, more)
    IN  CASE r.kind = "Some" ->
               [buffer |-> <<>>, internal_events |-> Append(p.internal_events, r.ev)]
          [] r.kind = "None" -> [p EXCEPT !.buffer = buf]
          [] OTHER -> [p EXCEPT !.buffer = <<>>]

(* unix.rs:231-253 -- the loop over the chunk, from 1-based position i. *)
RECURSIVE advance_from(_, _, _, _)
advance_from(p, buffer, more, i) ==
    IF i > Len(buffer) THEN p
    ELSE advance_from(advance_byte(p, buffer[i], advance_more(i - 1, Len(buffer), more)),
                      buffer, more, i + 1)

advance(p, buffer, more) == advance_from(p, buffer, more, 1)

(* unix.rs:259-261 -- Iterator::next: pop_front.  has = FALSE stands for None. *)
next_pop_back(p) ==
    IF p.internal_events = <<>>
    THEN [has |-> FALSE, ev |-> KeyEv("Null", 0, {}), parser |-> p]
    ELSE [has |-> TRUE, ev |-> p.internal_events[Len(p.internal_events)],
          parser |-> [p EXCEPT !.internal_events =
                          SubSeq(p.internal_events, 1, Len(p.internal_events) - 1)]]

next(p) ==
    IF p.internal_events = <<>>
    THEN [has |-> FALSE, ev |-> KeyEv("Null", 0, {}), parser |-> p]
    ELSE [has |-> TRUE, ev |-> Head(p.internal_events),
          parser |-> [p EXCEPT !.internal_events = Tail(p.internal_events)]]


(***************************************************************************)
(* Bounds of the model.                                                    *)
(***************************************************************************)
(* unix.rs:24 sets TTY_BUFFER_SIZE to 1_204; the model reads chunks of at most this. *)
TTY_BUFFER_SIZE == 2

(* Bytes the kernel queues on the tty before the typist has to wait.  A longer queue
   adds nothing: bytes left behind by a read are bytes typed after it. *)
MaxTty == TTY_BUFFER_SIZE

(* Bytes that fit in the wake self-pipe. *)
MaxWake == 2

(* Longest finite timeout, in clock ticks. *)
MaxTimeout == 1

(* Bytes typed on the tty of the event source: Esc, '[' and 'A'. *)
TtyBytes == {Byte.ESC, Byte.LBRACKET, 65}

(* Terminal sizes (columns, rows). *)
Sizes == {<<80, 24>>, <<100, 30>>}

TTY_TOKEN == "TTY"

SIGNAL_TOKEN == "SIGNAL"

WAKE_TOKEN == "WAKE"

NullEvent == KeyEv("Null", 0, {})

(* Option<Duration> *)
NoTimeout == [some |-> FALSE, dur |-> 0]

SomeTimeout(d) == [some |-> TRUE, dur |-> d]

Timeouts == {NoTimeout} \cup {SomeTimeout(d) : d \in 0..MaxTimeout}

(* Result<Option<InternalEvent>> of try_read, with the branch that produced it. *)
OkNone(why) == [kind |-> "none", ev |-> NullEvent, why |-> why]

OkSome(ev, why) == [kind |-> "event", ev |-> ev, why |-> why]

IoErr(why) == [kind |-> "err", ev |-> NullEvent, why |-> why]

NoResult == [kind |-> "init", ev |-> NullEvent, why |-> "init"]

(* Result of the Event Queue's poll / read. *)
OpResult(o, kind, ev) == [op |-> o, kind |-> kind, ev |-> ev]

NoOpResult == OpResult("none", "init", NullEvent)

Min(a, b) == IF a < b THEN a ELSE b

Perms(S) ==
    {s \in [1..Cardinality(S) -> S] : \A i, j \in 1..Cardinality(S) : i # j => s[i] # s[j]}

VARIABLES
    parser,         \* Parser { buffer, internal_events } of the event source
    tty,            \* bytes queued by the kernel on the tty descriptor
    ttyHup,         \* the tty hung up: it stays readable and reads return 0 bytes
    signalPending,  \* a SIGWINCH was delivered and not yet drained
    termSize,       \* what terminal::size() answers now
    wakePipe,       \* bytes in the wake self-pipe
    pc,             \* where the caller is inside try_read
    timeout,        \* try_read's timeout argument
    elapsed,        \* clock ticks since PollTimeout::new
    events,         \* tokens of the readiness batch still to be handled
    ret,            \* what the last try_read returned
    op,             \* the Event Queue call in progress: none / poll / read
    queue,          \* events the Event Queue holds for the next read
    opRet,          \* what the last poll / read returned
    input,          \* SpecParser: bytes not yet fed to the parser
    fed,            \* SpecParser: the advance calls made so far
    before,         \* SpecParser: the parser before the last advance call
    sigAt,          \* SpecSignal: what held when the pending SIGWINCH was delivered
    wakeCount,      \* SpecWake: wake() calls made and wake returns of try_read so far
    ORIGINAL_CONSOLE_MODE,  \* windows.rs: the saved console mode, Option<u32>
    poisoned,       \* windows.rs: the mutex around it was held by a thread that panicked
    consoleMode,    \* the mode of the console input handle
    captureRet,     \* what the last enable / disable_mouse_capture call did
    modeReads,      \* SpecCapture: the modes the enable calls have read, in order
    keyRecord,      \* SpecKey: the KEY_EVENT_RECORD given to handle_key_event
    keyResult,      \* SpecKey: what handle_key_event returned for it
    mouseRecord,    \* SpecMouse: the MOUSE_EVENT_RECORD given to handle_mouse_event
    windowTop,      \* SpecMouse: top row of the console window in the screen buffer
    window_size,    \* SpecMouse: what parse_relative_y's query returned for the record
    mouseResult,    \* SpecMouse: what handle_mouse_event returned for it
    mouseCount,     \* SpecMouse: number of mouse records delivered so far
    semaphore,      \* WinApiPoll.semaphore: Option<Semaphore>, with the semaphore's count
    consoleSignaled,\* the console input handle is signaled (input records are waiting)
    waitPc,         \* WinApiPoll::poll: "idle" or "waiting" in WaitForMultipleObjects
    dw_millis,      \* WinApiPoll::poll: the timeout given to the wait
    waited,         \* milliseconds the current wait has lasted
    pollRet,        \* what the last WinApiPoll::poll returned
    cancelRet,      \* what the last WinApiPoll::cancel returned
    winCalls,       \* SpecWinPoll: numbers of poll and cancel calls made
    cursorPc,       \* read_position_raw: "idle", "reading" (in the loop) or "done"
    ttyEvents,      \* events waiting on the terminal input, oldest first, numbered
    stdoutWrites,   \* how many times the query sequence was written to stdout
    positionRet,    \* what read_position_raw returned
    readLog,        \* SpecCursor: the events the call's reader has read, in order
    delivered,      \* SpecCursor: the events a later reader has been given
    arrivals,       \* SpecCursor: number of events that have arrived so far
    readerLock,     \* Event Queue: the caller holding the lock around try_read, or 0
    callers,        \* per calling thread: where it is in poll / read and what it holds
    readyEvents,    \* SpecLock: events decoded and not yet returned, oldest first
    typedBytes,     \* SpecLock: bytes typed and not yet read from the tty
    received,       \* SpecLock: per calling thread, the events read() has given it
    typedCount,     \* SpecLock: number of bytes typed so far
    asyncImpl,      \* read_until_async: which platform implementation runs
    delimiter,      \* read_until_async: its argument
    asyncTyped,     \* SpecAsync: everything the user types, in order
    asyncRest,      \* the part of it the background thread has not read yet
    channel,        \* the mpsc channel from the thread to the AsyncReader
    asyncGot,       \* SpecAsync: what the AsyncReader has given its caller, in order
    asyncThread,    \* the background thread: "running" or "stopped"
    asyncFailed,    \* SpecAsync: the thread stopped because reading the input failed
    recv,           \* AsyncReader.recv: the io::Result<u8> items sent and not yet received
    readBuf,        \* AsyncReader::read: the caller's buffer after the last call
    readRet,        \* AsyncReader::read: what the last call returned
    sentLog,        \* SpecRead: every item the thread has sent, in order
    reported,       \* SpecRead: the bytes the calls have reported to the caller, in order
    inputBatch,     \* the INPUT_RECORDs one ReadConsoleInputW call returned
    vtsRet,         \* what into_virtual_terminal_sequence returned for them
    pollTimeout,    \* SpecMillis: the timeout argument of WinApiPoll::poll
    waitBound,      \* SpecMillis: the dw_millis poll computed from it
    rawMode,        \* the terminal is in raw mode (what is_raw_mode_enabled() answers)
    posPc,          \* cursor::position: "idle", "query" (in read_position_raw) or "done"
    viaReadPosition,\* position took the read_position branch (raw mode was off)
    posRet,         \* what position returned
    rawAtEntry      \* SpecPosition: raw mode when position was called

vars ==
    <<parser, tty, ttyHup, signalPending, termSize, wakePipe, pc, timeout, elapsed,
      events, ret, op, queue, opRet, input, fed, before, sigAt, wakeCount,
      ORIGINAL_CONSOLE_MODE, poisoned, consoleMode, captureRet, modeReads,
      keyRecord, keyResult, mouseRecord, windowTop, window_size, mouseResult,
      mouseCount, semaphore, consoleSignaled, waitPc, dw_millis, waited, pollRet,
      cancelRet, winCalls, cursorPc, ttyEvents, stdoutWrites, positionRet, readLog,
      delivered, arrivals, readerLock, callers, readyEvents, typedBytes, received,
      typedCount, asyncImpl, delimiter, asyncTyped, asyncRest, channel, asyncGot,
      asyncThread, asyncFailed, recv, readBuf, readRet, sentLog, reported,
      inputBatch, vtsRet, pollTimeout, waitBound, rawMode, posPc, viaReadPosition,
      posRet, rawAtEntry>>

osVars == <<tty, ttyHup, signalPending, termSize, wakePipe>>

harnessVars == <<input, fed, before>>

(* History kept for the properties that speak of earlier moments of a run; no
   action of the program reads or writes it. *)
historyVars == <<sigAt, wakeCount>>

NoSignal == [size |-> <<0, 0>>, quiet |-> FALSE]

NoWakes == [calls |-> 0, returns |-> 0, consumed |-> 0]

(* State of the Windows console code (event/sys/windows.rs), which the POSIX event
   source never touches. *)
captureVars == <<ORIGINAL_CONSOLE_MODE, poisoned, consoleMode, captureRet, modeReads>>

keyVars == <<keyRecord, keyResult>>

mouseVars == <<mouseRecord, windowTop, window_size, mouseResult, mouseCount>>

(* The Windows state outside the capture and key-record code. *)
winPollVars ==
    <<semaphore, consoleSignaled, waitPc, dw_millis, waited, pollRet, cancelRet, winCalls>>

(* State of the cursor-position query (cursor/sys/unix.rs). *)
cursorVars ==
    <<cursorPc, ttyEvents, stdoutWrites, positionRet, readLog, delivered, arrivals>>

(* The Event Queue's lock and the threads calling poll / read. *)
lockVars == <<readerLock, callers, readyEvents, typedBytes, received, typedCount>>

(* read_until_async (modules/input, crossterm_input). *)
asyncVars ==
    <<asyncImpl, delimiter, asyncTyped, asyncRest, channel, asyncGot, asyncThread,
      asyncFailed>>

(* AsyncReader::read (crossterm_input/src/input/mod.rs). *)
readVars == <<recv, readBuf, readRet, sentLog, reported>>

(* State of the subsystems modelled after read_until_async. *)
(* into_virtual_terminal_sequence (crossterm_input/src/input/windows_input.rs). *)
batchVars == <<inputBatch, vtsRet>>

(* The timeout conversion of WinApiPoll::poll (event/sys/windows.rs). *)
millisVars == <<pollTimeout, waitBound>>

(* cursor::position and the raw mode of the terminal (cursor/sys/unix.rs). *)
rawVars == <<rawMode, posPc, viaReadPosition, posRet, rawAtEntry>>

restVars == <<readVars, batchVars, millisVars, rawVars>>

otherVars == <<mouseVars, winPollVars, cursorVars, lockVars, asyncVars, restVars>>

nonUnixVars == <<captureVars, keyVars, otherVars>>

unixVars ==
    <<parser, tty, ttyHup, signalPending, termSize, wakePipe, pc, timeout, elapsed,
      events, ret, op, queue, opRet, input, fed, before, sigAt, wakeCount>>

(* Option<u32> *)
NoMode == [some |-> FALSE, mode |-> 0]

SomeMode(m) == [some |-> TRUE, mode |-> m]

(* windows.rs:36 -- 0x0010 | 0x0080 | 0x0008 *)
ENABLE_MOUSE_MODE == 152

NoCaptureCall == [call |-> "none", result |-> "none", why |-> "none", n |-> 0]

NoKeyRecord ==
    [key_down |-> FALSE, virtual_key_code |-> 0, u_char |-> 0, control_key_state |-> {}]

NotDecoded == [result |-> "none", value |-> None]

NoMouseRecord == [event_flags |-> "none", button_state |-> "Release", x |-> 0, y |-> 0]

(* Result of ScreenBuffer::current()?.info()?: the window rectangle, or a failure. *)
NoWindow == [ok |-> FALSE, top |-> 0]

Window(top) == [ok |-> TRUE, top |-> top]

MouseAtRest ==
    /\ mouseRecord = NoMouseRecord
    /\ windowTop = 0
    /\ window_size = NoWindow
    /\ mouseResult = NotDecoded
    /\ mouseCount = 0

(* winbase.h INFINITE, imported at windows.rs:16: the 32-bit pattern 0xFFFFFFFF,
   written here as the value it has as a signed 32-bit integer. *)
INFINITE == -1

(* Option<Semaphore>; count is the count of the kernel semaphore the handle names. *)
NoSemaphore == [some |-> FALSE, count |-> 0]

SomeSemaphore(count) == [some |-> TRUE, count |-> count]

NoPollResult == [output |-> "none", result |-> "none", value |-> "none"]

NoCancelResult == [result |-> "none", released |-> FALSE]

(* windows.rs:261-263 -- WinApiPoll::new: no semaphore, no call made. *)
WinPollAtStart ==
    /\ semaphore = NoSemaphore
    /\ waitPc = "idle"
    /\ dw_millis = INFINITE
    /\ waited = 0
    /\ pollRet = NoPollResult
    /\ cancelRet = NoCancelResult
    /\ winCalls = [poll |-> 0, cancel |-> 0]

WinPollAtRest == WinPollAtStart /\ consoleSignaled = FALSE

NoPosition == [result |-> "none", x |-> 0, y |-> 0]

(* No query has been made and no event is waiting. *)
CursorAtRest ==
    /\ cursorPc = "idle"
    /\ ttyEvents = <<>>
    /\ stdoutWrites = 0
    /\ positionRet = NoPosition
    /\ readLog = <<>>
    /\ delivered = <<>>
    /\ arrivals = 0

Callers == {1, 2}

IdleCaller == [pc |-> "idle", op |-> "none", timeout |-> NoTimeout, front |-> 0]

(* The lock is free and no thread is in a call. *)
LockAtRest ==
    /\ readerLock = 0
    /\ callers = [c \in Callers |-> IdleCaller]
    /\ readyEvents = <<>>
    /\ typedBytes = <<>>
    /\ received = [c \in Callers |-> <<>>]
    /\ typedCount = 0

(* read_until_async has not been called. *)
AsyncAtRest ==
    /\ asyncImpl = "none"
    /\ delimiter = 0
    /\ asyncTyped = <<>>
    /\ asyncRest = <<>>
    /\ channel = <<>>
    /\ asyncGot = <<>>
    /\ asyncThread = "stopped"
    /\ asyncFailed = FALSE

NoRead == [result |-> "none", total |-> 0]

(* No AsyncReader exists yet. *)
ReadAtRest ==
    /\ recv = <<>>
    /\ readBuf = <<>>
    /\ readRet = NoRead
    /\ sentLog = <<>>
    /\ reported = <<>>

NoVts == [result |-> "none", vts |-> <<>>]

BatchAtRest ==
    /\ inputBatch = <<>>
    /\ vtsRet = NoVts

(* Option<Duration>, the duration given by its as_millis() value as three
   16-bit limbs, most significant first. *)
NoDuration == [some |-> FALSE, millis |-> <<0, 0, 0>>]

NoBound == [done |-> FALSE, bits |-> <<0, 0>>]

MillisAtRest ==
    /\ pollTimeout = NoDuration
    /\ waitBound = NoBound

NoPositionResult == [result |-> "none", x |-> 0, y |-> 0, why |-> "none"]

(* position has not been called. *)
PositionAtStart ==
    /\ posPc = "idle"
    /\ viaReadPosition = FALSE
    /\ posRet = NoPositionResult
    /\ rawAtEntry = FALSE

RestAtRest ==
    ReadAtRest /\ BatchAtRest /\ MillisAtRest /\ PositionAtStart /\ rawMode = FALSE

OthersAtRest ==
    /\ MouseAtRest /\ WinPollAtRest /\ CursorAtRest /\ LockAtRest /\ AsyncAtRest
    /\ RestAtRest

(* windows.rs:38-40 -- the static starts as None; no call has been made. *)
CaptureAtStart ==
    /\ ORIGINAL_CONSOLE_MODE = NoMode
    /\ poisoned = FALSE
    /\ captureRet = NoCaptureCall
    /\ modeReads = <<>>

WindowsAtRest ==
    /\ CaptureAtStart
    /\ consoleMode = ENABLE_MOUSE_MODE
    /\ keyRecord = NoKeyRecord
    /\ keyResult = NotDecoded
    /\ OthersAtRest

(***************************************************************************)
(* PollTimeout (event/timeout.rs).                                         *)
(***************************************************************************)
PollTimeout_leftover(t, el) ==
    IF t.some THEN [some |-> TRUE, dur |-> IF el >= t.dur THEN 0 ELSE t.dur - el]
    ELSE NoTimeout

PollTimeout_elapsed(t, el) == t.some /\ el >= t.dur

(***************************************************************************)
(* Readiness of the three registered descriptors (level-triggered).        *)
(***************************************************************************)
TtyReady == tty # <<>> \/ ttyHup

ReadyTokens ==
    (IF TtyReady THEN {TTY_TOKEN} ELSE {})
    \cup (IF signalPending THEN {SIGNAL_TOKEN} ELSE {})
    \cup (IF wakePipe > 0 THEN {WAKE_TOKEN} ELSE {})

Init ==
    /\ parser = ParserDefault
    /\ tty = <<>>
    /\ ttyHup = FALSE
    /\ signalPending = FALSE
    /\ termSize \in Sizes
    /\ wakePipe = 0
    /\ pc = "idle"
    /\ timeout = NoTimeout
    /\ elapsed = 0
    /\ events = <<>>
    /\ ret = NoResult
    /\ op = "none"
    /\ queue = <<>>
    /\ opRet = NoOpResult
    /\ input = <<>>
    /\ fed = <<>>
    /\ before = ParserDefault
    /\ sigAt = NoSignal
    /\ wakeCount = NoWakes
    /\ WindowsAtRest

(***************************************************************************)
(* The environment: the typist, the window, the clock, the waking thread.  *)
(***************************************************************************)
TtyInput(b) ==
    /\ ~ttyHup
    /\ Len(tty) < MaxTty
    /\ tty' = Append(tty, b)
    /\ UNCHANGED <<parser, ttyHup, signalPending, termSize, wakePipe, pc, timeout,
                   elapsed, events, ret, op, queue, opRet, input, fed, before>>

TtyHangup ==
    /\ ~ttyHup
    /\ ttyHup' = TRUE
    /\ UNCHANGED <<parser, tty, signalPending, termSize, wakePipe, pc, timeout,
                   elapsed, events, ret, op, queue, opRet, input, fed, before>>

WindowResize(sz) ==
    /\ sz # termSize
    /\ termSize' = sz
    /\ signalPending' = TRUE
    /\ UNCHANGED <<parser, tty, ttyHup, wakePipe, pc, timeout,
                   elapsed, events, ret, op, queue, opRet, input, fed, before>>

Tick ==
    /\ pc \in {"poll", "dispatch"}
    /\ timeout.some
    /\ elapsed < timeout.dur
    /\ elapsed' = elapsed + 1
    /\ UNCHANGED <<parser, tty, ttyHup, signalPending, termSize, wakePipe, pc, timeout,
                   events, ret, op, queue, opRet, input, fed, before>>

(* unix.rs:186-192 -- wake(): write one byte to the self-pipe, result ignored. *)
wake_two_bytes ==
    /\ wakePipe' = Min(wakePipe + 2, MaxWake)
    /\ UNCHANGED <<parser, tty, ttyHup, signalPending, termSize, pc, timeout,
                   elapsed, events, ret, op, queue, opRet, input, fed, before>>

(* wake() taking the lock of try_read first. *)
wake_under_reader_lock ==
    /\ readerLock = 0
    /\ wakePipe' = Min(wakePipe + 1, MaxWake)
    /\ UNCHANGED <<parser, tty, ttyHup, signalPending, termSize, pc, timeout,
                   elapsed, events, ret, op, queue, opRet, input, fed, before>>

wake ==
    /\ wakePipe' = Min(wakePipe + 1, MaxWake)
    /\ UNCHANGED <<parser, tty, ttyHup, signalPending, termSize, pc, timeout,
                   elapsed, events, ret, op, queue, opRet, input, fed, before>>


(***************************************************************************)
(* Event Queue (poll / read): what the caller of try_read does with the    *)
(* result.  poll keeps the event it saw for the next read; read hands out  *)
(* the kept event first and otherwise waits without a deadline, trying     *)
(* again when try_read reports no event.                                   *)
(***************************************************************************)
poll_return_dropping(r) ==
    /\ pc' = "idle"
    /\ op' = "none"
    /\ timeout' = NoTimeout
    /\ elapsed' = 0
    /\ queue' = queue
    /\ opRet' = OpResult("poll", IF r.kind = "event" THEN "true"
                                 ELSE IF r.kind = "none" THEN "false" ELSE "err",
                         NullEvent)

poll_return(r) ==
    /\ pc' = "idle"
    /\ op' = "none"
    /\ timeout' = NoTimeout
    /\ elapsed' = 0
    /\ queue' = IF r.kind = "event" THEN Append(queue, r.ev) ELSE queue
    /\ opRet' = OpResult("poll", IF r.kind = "event" THEN "true"
                                 ELSE IF r.kind = "none" THEN "false" ELSE "err",
                         NullEvent)

read_return(r) ==
    IF r.kind = "none"
    THEN /\ pc' = "enter"
         /\ UNCHANGED <<op, timeout, elapsed, queue, opRet>>
    ELSE /\ pc' = "idle"
         /\ op' = "none"
         /\ timeout' = NoTimeout
         /\ elapsed' = 0
         /\ queue' = queue
         /\ opRet' = OpResult("read", r.kind, r.ev)

(* try_read returns r to the Event Queue call that made it. *)
Return(r) ==
    /\ ret' = r
    /\ events' = <<>>
    /\ IF op = "poll" THEN poll_return(r) ELSE read_return(r)

poll(t) ==
    /\ op = "none"
    /\ IF queue # <<>>
       THEN /\ opRet' = OpResult("poll", "true", NullEvent)
            /\ UNCHANGED <<pc, op, timeout, elapsed, ret>>
       ELSE /\ op' = "poll"
            /\ pc' = "enter"
            /\ timeout' = t
            /\ elapsed' = 0
            /\ opRet' = NoOpResult
            /\ ret' = NoResult
    /\ UNCHANGED <<parser, osVars, events, queue, harnessVars>>

read ==
    /\ op = "none"
    /\ IF queue # <<>>
       THEN /\ opRet' = OpResult("read", "event", Head(queue))
            /\ queue' = Tail(queue)
            /\ UNCHANGED <<pc, op, timeout, elapsed, ret>>
       ELSE /\ op' = "read"
            /\ pc' = "enter"
            /\ timeout' = NoTimeout
            /\ elapsed' = 0
            /\ opRet' = NoOpResult
            /\ ret' = NoResult
            /\ queue' = queue
    /\ UNCHANGED <<parser, osVars, events, harnessVars>>

(***************************************************************************)
(* UnixInternalEventSource::try_read, one action per step of its code.     *)
(***************************************************************************)
(* try_read looking at the wake pipe before it looks at the FIFO. *)
try_read_enter_wake_first ==
    /\ pc = "enter"
    /\ LET n == next(parser)
       IN  IF wakePipe > 0
           THEN /\ parser' = parser
                /\ Return(OkNone("wake"))
           ELSE IF n.has
           THEN /\ parser' = n.parser
                /\ Return(OkSome(n.ev, "fifo"))
           ELSE /\ parser' = parser
                /\ pc' = "poll"
                /\ elapsed' = 0
                /\ UNCHANGED <<timeout, events, ret, op, queue, opRet>>
    /\ UNCHANGED <<osVars, harnessVars>>

(* try_read emptying the wake pipe when it is called. *)
try_read_enter_drain_wake ==
    /\ pc = "enter"
    /\ wakePipe' = 0
    /\ LET n == next(parser)
       IN  IF n.has
           THEN /\ parser' = n.parser
                /\ Return(OkSome(n.ev, "fifo"))
           ELSE /\ parser' = parser
                /\ pc' = "poll"
                /\ elapsed' = 0
                /\ UNCHANGED <<timeout, events, ret, op, queue, opRet>>
    /\ UNCHANGED <<tty, ttyHup, signalPending, termSize, harnessVars>>

(* try_read going to the multiplexer without looking at the FIFO first. *)
try_read_enter_skip_fifo ==
    /\ pc = "enter"
    /\ parser' = parser
    /\ pc' = "poll"
    /\ elapsed' = 0
    /\ UNCHANGED <<timeout, events, ret, op, queue, opRet>>
    /\ UNCHANGED <<osVars, harnessVars>>

(* unix.rs:109-114 -- a queued event is returned at once; else start the clock. *)
try_read_enter ==
    /\ pc = "enter"
    /\ LET n == next(parser)
       IN  IF n.has
           THEN /\ parser' = n.parser
                /\ Return(OkSome(n.ev, "fifo"))
           ELSE /\ parser' = parser
                /\ pc' = "poll"
                /\ elapsed' = 0
                /\ UNCHANGED <<timeout, events, ret, op, queue, opRet>>
    /\ UNCHANGED <<osVars, harnessVars>>

(* unix.rs:117 -- Poll::poll fails: the error is returned ('?'). *)
try_read_poll_err ==
    /\ pc = "poll"
    /\ Return(IoErr("poll"))
    /\ UNCHANGED <<parser, osVars, harnessVars>>

(* unix.rs:117,124 -- Poll::poll returns the ready tokens, in any order. *)
try_read_poll_ready ==
    /\ pc = "poll"
    /\ ReadyTokens # {}
    /\ \E s \in Perms(ReadyTokens) : events' = s
    /\ pc' = "dispatch"
    /\ UNCHANGED <<timeout, elapsed, ret, op, queue, opRet>>
    /\ UNCHANGED <<parser, osVars, harnessVars>>

(* unix.rs:117-122 -- nothing is ready when timeout.leftover() runs out: Ok(None). *)
try_read_poll_timeout_no_return ==
    /\ pc = "poll"
    /\ ReadyTokens = {}
    /\ PollTimeout_leftover(timeout, elapsed) = SomeTimeout(0)
    /\ events' = <<>>
    /\ pc' = "dispatch"
    /\ UNCHANGED <<timeout, elapsed, ret, op, queue, opRet>>
    /\ UNCHANGED <<parser, osVars, harnessVars>>

(* The timeout return throwing the pending bytes away. *)
try_read_poll_timeout_clears_pending ==
    /\ pc = "poll"
    /\ ReadyTokens = {}
    /\ PollTimeout_leftover(timeout, elapsed) = SomeTimeout(0)
    /\ Return(OkNone("timeout"))
    /\ parser' = [parser EXCEPT !.buffer = <<>>]
    /\ UNCHANGED <<osVars, harnessVars>>

try_read_poll_timeout ==
    /\ pc = "poll"
    /\ ReadyTokens = {}
    /\ PollTimeout_leftover(timeout, elapsed) = SomeTimeout(0)
    /\ Return(OkNone("timeout"))
    /\ UNCHANGED <<parser, osVars, harnessVars>>

(* unix.rs:127 -- the bytes one read of the tty returns. *)
tty_read_count == Min(Len(tty), TTY_BUFFER_SIZE)

(* What the tty does between the read and the zero-timeout poll that follows it:
   nothing, one more byte typed, or a hang-up. *)
LateInput ==
    {<<>>} \cup (IF ~ttyHup /\ Len(tty) - tty_read_count < MaxTty
                 THEN {<<b>> : b \in TtyBytes} ELSE {})

LateHangup == IF ttyHup THEN {TRUE} ELSE {FALSE, TRUE}

(* The TTY_TOKEN arm with Parser::advance moved before the zero-timeout poll. *)
try_read_tty_advance_before_poll ==
    /\ pc = "dispatch"
    /\ events # <<>>
    /\ Head(events) = TTY_TOKEN
    /\ LET read_count == tty_read_count
           bytes == SubSeq(tty, 1, read_count)
           rest  == SubSeq(tty, read_count + 1, Len(tty))
       IN  \/ /\ Return(IoErr("tty_read"))
              /\ UNCHANGED <<parser, tty, ttyHup>>
           \/ /\ read_count = 0
              /\ events' = Tail(events)
              /\ UNCHANGED <<parser, tty, ttyHup, pc, timeout, elapsed, ret, op, queue, opRet>>
           \/ /\ read_count > 0
              /\ \E late \in LateInput, hup \in LateHangup :
                    /\ tty' = rest \o late
                    /\ ttyHup' = hup
                    /\ LET additional_input_available == rest \o late # <<>> \/ hup
                           p == advance(parser, bytes, additional_input_available)
                           n == next(p)
                       IN  \/ /\ Return(IoErr("tty_poll"))
                              /\ parser' = p
                           \/ IF n.has
                              THEN /\ parser' = n.parser
                                   /\ Return(OkSome(n.ev, "tty"))
                              ELSE /\ parser' = p
                                   /\ events' = Tail(events)
                                   /\ UNCHANGED <<pc, timeout, elapsed, ret, op, queue, opRet>>
    /\ UNCHANGED <<signalPending, termSize, wakePipe, harnessVars>>

(* unix.rs:126-146 -- TTY_TOKEN: read a chunk of at most TTY_BUFFER_SIZE bytes; if it
   is not empty, ask with a zero-timeout poll whether the tty is readable again
   (additional_input_available), then Parser::advance and Parser::next. *)
try_read_tty ==
    /\ pc = "dispatch"
    /\ events # <<>>
    /\ Head(events) = TTY_TOKEN
    /\ LET read_count == tty_read_count
           bytes == SubSeq(tty, 1, read_count)
           rest  == SubSeq(tty, read_count + 1, Len(tty))
       IN  \/ /\ Return(IoErr("tty_read"))
              /\ UNCHANGED <<parser, tty, ttyHup>>
           \/ /\ read_count = 0
              /\ events' = Tail(events)
              /\ UNCHANGED <<parser, tty, ttyHup, pc, timeout, elapsed, ret, op, queue, opRet>>
           \/ /\ read_count > 0
              /\ \E late \in LateInput, hup \in LateHangup :
                    /\ tty' = rest \o late
                    /\ ttyHup' = hup
                    /\ \/ /\ Return(IoErr("tty_poll"))
                          /\ parser' = parser
                       \/ LET additional_input_available == rest \o late # <<>> \/ hup
                              p == advance(parser, bytes, additional_input_available)
                              n == next(p)
                          IN  IF n.has
                              THEN /\ parser' = n.parser
                                   /\ Return(OkSome(n.ev, "tty"))
                              ELSE /\ parser' = p
                                   /\ events' = Tail(events)
                                   /\ UNCHANGED <<pc, timeout, elapsed, ret, op, queue, opRet>>
    /\ UNCHANGED <<signalPending, termSize, wakePipe, harnessVars>>

(* The SIGNAL_TOKEN arm reporting the size the terminal had when the signal came. *)
try_read_signal_size_at_delivery ==
    /\ pc = "dispatch"
    /\ events # <<>>
    /\ Head(events) = SIGNAL_TOKEN
    /\ signalPending' = FALSE
    /\ IF signalPending
       THEN \/ Return(IoErr("size"))
            \/ Return(OkSome(ResizeEv(sigAt.size[1], sigAt.size[2]), "signal"))
       ELSE /\ events' = Tail(events)
            /\ UNCHANGED <<pc, timeout, elapsed, ret, op, queue, opRet>>
    /\ UNCHANGED <<parser, tty, ttyHup, termSize, wakePipe, harnessVars>>

(* unix.rs:147-166 -- SIGNAL_TOKEN: drain the signals, query the size, return Resize. *)
try_read_signal ==
    /\ pc = "dispatch"
    /\ events # <<>>
    /\ Head(events) = SIGNAL_TOKEN
    /\ signalPending' = FALSE
    /\ IF signalPending
       THEN \/ Return(IoErr("size"))
            \/ Return(OkSome(ResizeEv(termSize[1], termSize[2]), "signal"))
       ELSE /\ events' = Tail(events)
            /\ UNCHANGED <<pc, timeout, elapsed, ret, op, queue, opRet>>
    /\ UNCHANGED <<parser, tty, ttyHup, termSize, wakePipe, harnessVars>>

(* unix.rs:167-174 -- WAKE_TOKEN: read one byte, ignore the result, return Ok(None). *)
try_read_wake_continue ==
    /\ pc = "dispatch"
    /\ events # <<>>
    /\ Head(events) = WAKE_TOKEN
    /\ wakePipe' = IF wakePipe > 0 THEN wakePipe - 1 ELSE 0
    /\ events' = Tail(events)
    /\ UNCHANGED <<pc, timeout, elapsed, ret, op, queue, opRet>>
    /\ UNCHANGED <<parser, tty, ttyHup, signalPending, termSize, harnessVars>>

try_read_wake ==
    /\ pc = "dispatch"
    /\ events # <<>>
    /\ Head(events) = WAKE_TOKEN
    /\ \/ wakePipe' = (IF wakePipe > 0 THEN wakePipe - 1 ELSE 0)
       \/ wakePipe' = wakePipe
    /\ Return(OkNone("wake"))
    /\ UNCHANGED <<parser, tty, ttyHup, signalPending, termSize, harnessVars>>

(* unix.rs:179-183 -- the batch is handled: give up if the timeout elapsed, else wait again. *)
try_read_loop_end_no_check ==
    /\ pc = "dispatch"
    /\ events = <<>>
    /\ pc' = "poll"
    /\ UNCHANGED <<timeout, elapsed, events, ret, op, queue, opRet>>
    /\ UNCHANGED <<parser, osVars, harnessVars>>

try_read_loop_end ==
    /\ pc = "dispatch"
    /\ events = <<>>
    /\ IF PollTimeout_elapsed(timeout, elapsed)
       THEN Return(OkNone("elapsed"))
       ELSE /\ pc' = "poll"
            /\ UNCHANGED <<timeout, elapsed, events, ret, op, queue, opRet>>
    /\ UNCHANGED <<parser, osVars, harnessVars>>

Environment ==
    \/ \E b \in TtyBytes : TtyInput(b)
    \/ TtyHangup
    \/ \E sz \in Sizes : WindowResize(sz)

Caller ==
    \/ \E t \in Timeouts : poll(t)
    \/ read

TryRead ==
    \/ try_read_enter
    \/ try_read_poll_err
    \/ try_read_poll_ready
    \/ try_read_poll_timeout
    \/ try_read_tty
    \/ try_read_signal
    \/ try_read_wake
    \/ try_read_loop_end

Next ==
    \/ (\E b \in TtyBytes : TtyInput(b)) /\ UNCHANGED <<historyVars, nonUnixVars>>
    \/ TtyHangup /\ UNCHANGED <<historyVars, nonUnixVars>>
    \/ (\E sz \in Sizes : WindowResize(sz)) /\ UNCHANGED <<historyVars, nonUnixVars>>
    \/ Tick /\ UNCHANGED <<historyVars, nonUnixVars>>
    \/ wake /\ UNCHANGED <<historyVars, nonUnixVars>>
    \/ (\E t \in Timeouts : poll(t)) /\ UNCHANGED <<historyVars, nonUnixVars>>
    \/ read /\ UNCHANGED <<historyVars, nonUnixVars>>
    \/ try_read_enter /\ UNCHANGED <<historyVars, nonUnixVars>>
    \/ try_read_poll_err /\ UNCHANGED <<historyVars, nonUnixVars>>
    \/ try_read_poll_ready /\ UNCHANGED <<historyVars, nonUnixVars>>
    \/ try_read_poll_timeout /\ UNCHANGED <<historyVars, nonUnixVars>>
    \/ try_read_tty /\ UNCHANGED <<historyVars, nonUnixVars>>
    \/ try_read_signal /\ UNCHANGED <<historyVars, nonUnixVars>>
    \/ try_read_wake /\ UNCHANGED <<historyVars, nonUnixVars>>
    \/ try_read_loop_end /\ UNCHANGED <<historyVars, nonUnixVars>>

Spec == Init /\ [][Next]_vars

(* The caller's thread keeps running and the clock keeps ticking. *)
SpecFair ==
    /\ Spec
    /\ WF_vars(TryRead /\ UNCHANGED <<historyVars, nonUnixVars>>)
    /\ WF_vars(Tick /\ UNCHANGED <<historyVars, nonUnixVars>>)


(***************************************************************************)
(* SpecParser: the Parser alone, fed with byte strings from bounded sets.  *)
(***************************************************************************)
(* advance calls per run. *)
MaxChunks == 2

(* Length of the arbitrary byte strings. *)
MaxNoiseLen == 3

(* Esc, '[', 'A', 'a', ';', '1' *)
NoiseBytes == {Byte.ESC, Byte.LBRACKET, 65, 97, Byte.SEMI, 49}

RECURSIVE SeqsUpTo(_, _)
SeqsUpTo(S, n) ==
    IF n = 0 THEN {<<>>}
    ELSE LET shorter == SeqsUpTo(S, n - 1)
         IN  shorter \cup {Append(s, b) : s \in {x \in shorter : Len(x) = n - 1}, b \in S}

(* One complete sequence of every kind the byte parser recognizes. *)
KnownSequences ==
    { <<Byte.ESC>>,                                   \* Esc key (when nothing follows)
      <<97>>,                                         \* a
      <<1>>,                                          \* Ctrl+a
      <<Byte.CR>>,                                    \* Enter
      <<195, 169>>,                                   \* e-acute, two UTF-8 bytes
      <<Byte.ESC, 97>>,                               \* Alt+a
      <<Byte.ESC, Byte.LBRACKET, 65>>,                \* Up
      <<Byte.ESC, Byte.LBRACKET, 49, 59, 53, 65>>,    \* Ctrl+Up      ESC [ 1 ; 5 A
      <<Byte.ESC, Byte.LBRACKET, 51, 126>>,           \* Delete       ESC [ 3 ~
      <<Byte.ESC, Byte.O, 80>>,                       \* F1           ESC O P
      <<Byte.ESC, Byte.LBRACKET, Byte.M, 32, 33, 34>>,            \* X10 mouse press
      <<Byte.ESC, Byte.LBRACKET, Byte.LT, 48, 59, 53, 59, 51, Byte.M>>,  \* ESC [ < 0 ; 5 ; 3 M
      <<Byte.ESC, Byte.LBRACKET, Byte.LT, 48, 59, 53, 59, 51, Byte.m>>,  \* ESC [ < 0 ; 5 ; 3 m
      <<Byte.ESC, Byte.LBRACKET, 50, 59, 49, 48, Byte.R>> }       \* ESC [ 2 ; 1 0 R

TestInputs ==
    KnownSequences
    \cup {s \o s : s \in KnownSequences}
    \cup (SeqsUpTo(NoiseBytes, MaxNoiseLen) \ {<<>>})

Chunk(bytes, more) == [bytes |-> bytes, more |-> more]

InitParser ==
    /\ parser = ParserDefault
    /\ tty = <<>>
    /\ ttyHup = FALSE
    /\ signalPending = FALSE
    /\ termSize = <<80, 24>>
    /\ wakePipe = 0
    /\ pc = "idle"
    /\ timeout = NoTimeout
    /\ elapsed = 0
    /\ events = <<>>
    /\ ret = NoResult
    /\ op = "none"
    /\ queue = <<>>
    /\ opRet = NoOpResult
    /\ input \in TestInputs
    /\ fed = <<>>
    /\ before = ParserDefault
    /\ sigAt = NoSignal
    /\ wakeCount = NoWakes
    /\ WindowsAtRest

(* One call parser.advance(&input[..k], more). *)
feed(k, more) ==
    /\ Len(fed) < MaxChunks
    /\ k \in 1..Len(input)
    /\ parser' = advance(parser, SubSeq(input, 1, k), more)
    /\ before' = parser
    /\ fed' = Append(fed, Chunk(SubSeq(input, 1, k), more))
    /\ input' = SubSeq(input, k + 1, Len(input))
    /\ UNCHANGED <<osVars, pc, timeout, elapsed, events, ret, op, queue, opRet>>

NextParser ==
    (\E k \in 1..Len(input), more \in BOOLEAN : feed(k, more)) /\ UNCHANGED <<historyVars, nonUnixVars>>

SpecParser == InitParser /\ [][NextParser]_vars


(***************************************************************************)
(* Properties of the Parser, checked under SpecParser.                     *)
(***************************************************************************)
RECURSIVE Concat(_)
Concat(chunks) ==
    IF chunks = <<>> THEN <<>> ELSE Head(chunks).bytes \o Concat(Tail(chunks))

(* The whole byte string of the run: what was fed followed by what is left. *)
Orig == Concat(fed) \o input

LastChunk == fed[Len(fed)]

NeedsMore(buf, more) == parse_event(buf, more).kind = "None"

(* The byte parser decodes s, as a whole, to one event. *)
IsComplete(s, more) == parse_event(s, more).kind = "Some"

(* C6: after every advance call the pending buffer is empty or holds only bytes the
   byte parser answered 'need more' for at its last invocation (and at every
   earlier byte of the buffer); the bytes of the call that precede the pending
   bytes were consumed completely (every event of the call was emitted before
   the first pending byte), so no pending byte belongs to an emitted event. *)
C6_PendingBufferIsInProgress ==
    (fed # <<>> /\ parser.buffer # <<>>) =>
        LET b == parser.buffer
            c == LastChunk.bytes
        IN  /\ NeedsMore(b, LastChunk.more)
            /\ \A k \in 1..(Len(b) - 1) : NeedsMore(SubSeq(b, 1, k), TRUE)
            /\ IF Len(b) <= Len(c)
               THEN /\ b = SubSeq(c, Len(c) - Len(b) + 1, Len(c))
                    /\ advance(before, SubSeq(c, 1, Len(c) - Len(b)), TRUE)
                         = [buffer |-> <<>>, internal_events |-> parser.internal_events]
               ELSE /\ b = before.buffer \o c
                    /\ parser.internal_events = before.internal_events

(* One call fed 'a' ESC [ : Char(a) was emitted and ESC [ is pending. *)
C6_Witness ==
    /\ fed = <<Chunk(<<97, Byte.ESC, Byte.LBRACKET>>, FALSE)>>
    /\ parser = [buffer |-> <<Byte.ESC, Byte.LBRACKET>>,
                 internal_events |-> <<KeyEv("Char", 97, {})>>]

(* C7: for a complete recognized sequence s = a \o b with a, b non-empty,
   advance(a, TRUE) emits nothing and keeps a pending, and advance(a, TRUE) followed
   by advance(b, m) leaves the parser as one advance(s, m) does. *)
C7_SplitEqualsWhole ==
    (fed # <<>> /\ fed[1].more /\ Len(fed[1].bytes) < Len(Orig) /\ IsComplete(Orig, FALSE)) =>
        /\ Len(fed) = 1 =>
              parser = [buffer |-> fed[1].bytes, internal_events |-> <<>>]
        /\ (Len(fed) = 2 /\ input = <<>>) =>
              /\ parser = advance(ParserDefault, Orig, fed[2].more)
              /\ parser = [buffer |-> <<>>,
                           internal_events |-> <<parse_event(Orig, FALSE).ev>>]

(* ESC [ < 0 ; 5 was fed with more = TRUE, then ; 3 M: one Press(Left, 4, 2). *)
C7_Witness ==
    /\ fed = <<Chunk(<<Byte.ESC, Byte.LBRACKET, Byte.LT, 48, 59, 53>>, TRUE),
               Chunk(<<59, 51, Byte.M>>, FALSE)>>
    /\ input = <<>>
    /\ parser = [buffer |-> <<>>, internal_events |-> <<MouseEv("PressLeft", 4, 2)>>]

(* The run fed s twice: as one chunk s \o s, or as two calls of s each. *)
FedTwice(s) ==
    /\ input = <<>>
    /\ Orig = s \o s
    /\ \/ Len(fed) = 1
       \/ Len(fed) = 2 /\ fed[1].bytes = s

TwoEvents(s) ==
    parser = [buffer |-> <<>>,
              internal_events |-> <<parse_event(s, FALSE).ev, parse_event(s, FALSE).ev>>]

Halves == {SubSeq(Orig, 1, k) : k \in 1..Len(Orig)}

(* C8 as stated: feeding any complete, valid sequence twice (in one chunk or in two
   calls) yields two identical events and an empty pending buffer. *)
C8_Original ==
    \A s \in Halves : (IsComplete(s, FALSE) /\ FedTwice(s)) => TwoEvents(s)

(* C8 as amended: it holds for every complete sequence whose decoding does not
   depend on more_available, that is every sequence but the lone Esc byte; for the
   lone Esc it holds when each Esc is the last byte of a call made with
   more = FALSE, and fails otherwise (the first Esc is then held as a prefix). *)
C8_TwiceYieldsTwoEvents ==
    \A s \in Halves :
        /\ (IsComplete(s, TRUE) /\ FedTwice(s)) => TwoEvents(s)
        /\ (s = <<Byte.ESC>> /\ FedTwice(s)) =>
              (TwoEvents(s) <=> (Len(fed) = 2 /\ ~fed[1].more /\ ~fed[2].more))

(* Ctrl+Up fed twice in one chunk. *)
C8_Witness ==
    /\ fed = <<Chunk(<<Byte.ESC, Byte.LBRACKET, 49, 59, 53, 65,
                       Byte.ESC, Byte.LBRACKET, 49, 59, 53, 65>>, FALSE)>>
    /\ parser.buffer = <<>>
    /\ parser.internal_events =
           <<KeyEv("Up", 0, {"CONTROL"}), KeyEv("Up", 0, {"CONTROL"})>>

(* The parser just before the last byte / the last two bytes of the last call. *)
BeforeLast(n) ==
    advance(before, SubSeq(LastChunk.bytes, 1, Len(LastChunk.bytes) - n), TRUE)

EndsWith(tail) ==
    /\ fed # <<>>
    /\ Len(LastChunk.bytes) >= Len(tail)
    /\ SubSeq(LastChunk.bytes, Len(LastChunk.bytes) - Len(tail) + 1,
              Len(LastChunk.bytes)) = tail

(* C9: a chunk ending in a lone Esc (the pending buffer is empty when the Esc is
   pushed): with more = FALSE advance emits Key(Esc) and leaves the buffer empty;
   with more = TRUE it emits nothing for the Esc and holds it; and when '[' follows
   the Esc in the chunk no Esc key is emitted and ESC [ is held as a CSI prefix. *)
C9_LoneEsc ==
    /\ (EndsWith(<<Byte.ESC>>) /\ BeforeLast(1).buffer = <<>>) =>
          IF LastChunk.more
          THEN parser = [buffer |-> <<Byte.ESC>>,
                         internal_events |-> BeforeLast(1).internal_events]
          ELSE parser = [buffer |-> <<>>,
                         internal_events |-> Append(BeforeLast(1).internal_events, KeyEsc)]
    /\ (EndsWith(<<Byte.ESC, Byte.LBRACKET>>) /\ BeforeLast(2).buffer = <<>>) =>
          parser = [buffer |-> <<Byte.ESC, Byte.LBRACKET>>,
                    internal_events |-> BeforeLast(2).internal_events]

(* The chunk 'a' Esc with nothing pending on the tty: Char(a) then Key(Esc). *)
C9_Witness ==
    /\ fed = <<Chunk(<<97, Byte.ESC>>, FALSE)>>
    /\ parser = [buffer |-> <<>>,
                 internal_events |-> <<KeyEv("Char", 97, {}), KeyEsc>>]


(***************************************************************************)
(* Properties of the event source and the Event Queue, checked under Spec  *)
(* (C3 under SpecFair).                                                    *)
(***************************************************************************)
Fifo == parser.internal_events

(* A step of the thread inside try_read (the environment changes neither). *)
TryReadStep == pc' # pc \/ events' # events

PollTrue == OpResult("poll", "true", NullEvent)

PollFalse == OpResult("poll", "false", NullEvent)

(* C1: when poll has returned true the Event Queue holds exactly the event poll's
   try_read returned, and the read that follows returns that event at once,
   without entering try_read and without touching the parser or the tty. *)
C1_PollThenRead ==
    /\ [](opRet = PollTrue => (op = "none" /\ ret.kind = "event" /\ queue = <<ret.ev>>))
    /\ [][(opRet = PollTrue /\ (op' = "read" \/ opRet'.op = "read")) =>
              /\ op' = "none"
              /\ pc' = "idle"
              /\ opRet' = OpResult("read", "event", ret.ev)
              /\ queue' = <<>>
              /\ parser' = parser
              /\ tty' = tty]_vars

(* poll saw the Up key decoded from the tty and is holding it for read. *)
C1_Witness ==
    /\ opRet = PollTrue
    /\ ret = OkSome(KeyEv("Up", 0, {}), "tty")
    /\ queue = <<KeyEv("Up", 0, {})>>

(* C2: a try_read blocked in the multiplexer wait with an empty FIFO and only the
   wake descriptor ready does not wait for its timeout (the wait can end at once),
   the wait ends with the batch <<WAKE>>, and handling a batch that holds only the
   wake token returns Ok(None) and leaves parser and Event Queue alone. *)
C2_WakeEndsWait ==
    /\ []((pc = "poll" /\ wakePipe > 0) => ENABLED try_read_poll_ready)
    /\ [][(pc = "poll" /\ Fifo = <<>> /\ ReadyTokens = {WAKE_TOKEN}
           /\ TryReadStep /\ ret'.kind # "err") =>
              (pc' = "dispatch" /\ events' = <<WAKE_TOKEN>>)]_vars
    /\ [][(pc = "dispatch" /\ events = <<WAKE_TOKEN>> /\ TryReadStep) =>
              /\ ret' = OkNone("wake")
              /\ pc' \in {"idle", "enter"}
              /\ parser' = parser
              /\ queue' = queue]_vars

(* A read (no timeout at all) whose try_read came back with no event by a wake. *)
C2_Witness ==
    /\ op = "read"
    /\ pc = "enter"
    /\ ~timeout.some
    /\ ret = OkNone("wake")

(* C3: a try_read called with a finite timeout returns, whatever becomes ready and
   however often; and when the batch is handled and the timeout has elapsed, what
   it returns is Ok(None). *)
C3_FiniteTimeoutReturns ==
    /\ (pc # "idle" /\ timeout.some) ~> (pc = "idle")
    /\ [][(pc = "dispatch" /\ events = <<>> /\ PollTimeout_elapsed(timeout, elapsed)
           /\ TryReadStep) => (pc' = "idle" /\ ret' = OkNone("elapsed"))]_vars

(* The tty hung up (reads return zero bytes) and the call gave up at the end of a batch. *)
C3_Witness ==
    /\ pc = "idle"
    /\ ttyHup
    /\ tty = <<>>
    /\ ret = OkNone("elapsed")

ZeroTimeoutNothingReady ==
    /\ pc = "poll"
    /\ timeout = SomeTimeout(0)
    /\ Fifo = <<>>
    /\ ReadyTokens = {}

(* C4: with a timeout of zero, an empty FIFO and no ready descriptor, the wait is
   never blocked (it can return at once), and the step that ends it returns
   Ok(None) -- poll reports false -- or an I/O error of the wait itself. *)
C4_ZeroTimeoutDoesNotBlock ==
    /\ [](ZeroTimeoutNothingReady => ENABLED try_read_poll_timeout)
    /\ [][(ZeroTimeoutNothingReady /\ TryReadStep) =>
              /\ pc' = "idle"
              /\ \/ ret' = OkNone("timeout") /\ opRet' = PollFalse
                 \/ ret' = IoErr("poll")]_vars

(* poll(Some(0)) is at its readiness check, nothing is ready, and it returns false. *)
C4_Witness ==
    /\ ZeroTimeoutNothingReady
    /\ elapsed = 0
    /\ ENABLED (try_read_poll_timeout /\ opRet' = PollFalse)

(* The chunk the next tty read returns and the flag the zero-timeout poll after it
   gives (read off the tty as the step leaves it). *)
TtyChunk == SubSeq(tty, 1, tty_read_count)

MoreAfterRead == tty' # <<>> \/ ttyHup'

(* The step that reads a non-empty chunk and passes it to advance. *)
AdvanceStep ==
    /\ pc = "dispatch"
    /\ events # <<>>
    /\ Head(events) = TTY_TOKEN
    /\ tty_read_count > 0
    /\ TryReadStep
    /\ ret'.kind # "err"

EnterStep == pc = "enter" /\ pc' # pc

(* C5: decoded events leave the FIFO in the order they entered it, each once.
   A call that finds the FIFO non-empty returns its head without reading the tty;
   advance only appends; the call that advanced returns the head of what advance
   left and keeps the rest; no other step changes the FIFO or returns a decoded
   event. *)
C5_FifoOrder ==
    [][/\ EnterStep =>
              IF Fifo # <<>>
              THEN ret' = OkSome(Head(Fifo), "fifo") /\ Fifo' = Tail(Fifo) /\ tty' = tty
              ELSE Fifo' = Fifo /\ pc' = "poll"
       /\ AdvanceStep =>
              LET G == advance(parser, TtyChunk, MoreAfterRead).internal_events
              IN  /\ Fifo = <<>>
                  /\ IF G # <<>>
                     THEN ret' = OkSome(Head(G), "tty") /\ Fifo' = Tail(G)
                     ELSE Fifo' = G /\ pc' = "dispatch"
       /\ (~EnterStep /\ ~AdvanceStep) =>
              /\ Fifo' = Fifo
              /\ (ret' # ret /\ ret'.kind = "event") => ret'.why = "signal"
      ]_vars

(* 'A' and Esc came in one chunk: 'A' was returned first, then Esc from the FIFO. *)
C5_Witness ==
    /\ pc = "idle"
    /\ ret = OkSome(KeyEsc, "fifo")
    /\ Fifo = <<>>

(* The byte parser rejects the pending buffer at byte i of the chunk. *)
RejectsAt(p, bytes, more, i) ==
    LET q == advance(p, SubSeq(bytes, 1, i - 1), TRUE)
    IN  parse_event(Append(q.buffer, bytes[i]), i < Len(bytes) \/ more).kind = "Err"

(* The events decoded before byte i, then the bytes after i decoded from an empty buffer. *)
ResyncAfter(p, bytes, more, i) ==
    LET q == advance(p, SubSeq(bytes, 1, i - 1), TRUE)
    IN  advance([buffer |-> <<>>, internal_events |-> q.internal_events],
                SubSeq(bytes, i + 1, Len(bytes)), more)

Rejects(p, bytes, more) == \E i \in 1..Len(bytes) : RejectsAt(p, bytes, more, i)

IoCauses == {"poll", "tty_read", "tty_poll", "size"}

(* C10: when the byte parser rejects the pending buffer at a byte of the chunk, what
   advance leaves is what decoding the rest of the chunk from an empty buffer
   gives, with no event pushed for the rejected bytes; try_read turns no parse
   error into Err: every Err it returns is an I/O failure, and when the step
   handling a chunk the parser rejects returns Err, advance has not run. *)
C10_ParseErrorIsLocal ==
    /\ [][AdvanceStep =>
              \A i \in 1..Len(TtyChunk) :
                  RejectsAt(parser, TtyChunk, MoreAfterRead, i) =>
                      [buffer |-> parser'.buffer,
                       internal_events |->
                           IF pc' # "dispatch" THEN <<ret'.ev>> \o Fifo' ELSE Fifo']
                        = ResyncAfter(parser, TtyChunk, MoreAfterRead, i)]_vars
    /\ [](ret.kind = "err" => ret.why \in IoCauses)
    /\ [][(pc = "dispatch" /\ events # <<>> /\ Head(events) = TTY_TOKEN
           /\ TryReadStep /\ ret'.kind = "err") =>
              (parser' = parser /\ ret'.why \in {"tty_read", "tty_poll"})]_vars

(* ESC [ is pending and the chunk ESC 'A' is about to be read: ESC [ ESC is rejected,
   and the call returns Char(A), decoded from an empty buffer. *)
C10_Witness ==
    /\ pc = "dispatch"
    /\ events # <<>>
    /\ Head(events) = TTY_TOKEN
    /\ parser = [buffer |-> <<Byte.ESC, Byte.LBRACKET>>, internal_events |-> <<>>]
    /\ tty = <<Byte.ESC, 65>>
    /\ RejectsAt(parser, tty, FALSE, 1)
    /\ ENABLED (try_read_tty /\ ret' = OkSome(KeyEv("Char", 65, {}), "tty")
                /\ parser' = ParserDefault)


(* A step of try_read that ends the call with an error. *)
FailsWith(why) == TryReadStep /\ ret' = IoErr(why)

(* C11: a failure of the multiplexer wait (line 117), of the tty read (line 127) or
   of the zero-timeout wait after it (lines 130-131) ends the call in that very
   step -- the failed operation is not tried again inside the call -- the Event
   Queue call that made it returns the error, and the parser's pending buffer and
   FIFO are what they were before the failed operation. *)
C11_IoErrorPropagates ==
    [][/\ (pc = "poll" /\ TryReadStep /\ ret'.kind = "err") => ret'.why = "poll"
       /\ (FailsWith("poll") \/ FailsWith("tty_read") \/ FailsWith("tty_poll")) =>
              /\ pc' = "idle"
              /\ op' = "none"
              /\ opRet'.kind = "err"
              /\ opRet' # opRet
              /\ parser' = parser
              /\ queue' = queue]_vars

(* Esc was pending in the parser's buffer when the zero-timeout wait after the next
   read failed; it is still pending. *)
C11_Witness ==
    /\ pc = "idle"
    /\ ret = IoErr("tty_poll")
    /\ opRet.kind = "err"
    /\ parser = [buffer |-> <<Byte.ESC>>, internal_events |-> <<>>]


(***************************************************************************)
(* SpecSignal: the event source with the moment of each SIGWINCH recorded. *)
(* The callers here wait without a timeout or do not wait at all, so the   *)
(* clock plays no part.                                                    *)
(***************************************************************************)
(* The window is resized; if no SIGWINCH was pending, remember the size it was
   delivered for and whether the tty held no unread byte at that moment. *)
WindowResizeSeen(sz) ==
    /\ WindowResize(sz)
    /\ sigAt' = IF signalPending THEN sigAt
                ELSE [size |-> sz, quiet |-> tty = <<>> /\ ~ttyHup]
    /\ wakeCount' = wakeCount
    /\ UNCHANGED nonUnixVars

NextSignal ==
    \/ \E sz \in Sizes : WindowResizeSeen(sz)
    \/ (\E b \in TtyBytes : TtyInput(b)) /\ UNCHANGED <<historyVars, nonUnixVars>>
    \/ wake /\ UNCHANGED <<historyVars, nonUnixVars>>
    \/ (\E t \in {NoTimeout, SomeTimeout(0)} : poll(t)) /\ UNCHANGED <<historyVars, nonUnixVars>>
    \/ read /\ UNCHANGED <<historyVars, nonUnixVars>>
    \/ try_read_enter /\ UNCHANGED <<historyVars, nonUnixVars>>
    \/ try_read_poll_err /\ UNCHANGED <<historyVars, nonUnixVars>>
    \/ try_read_poll_ready /\ UNCHANGED <<historyVars, nonUnixVars>>
    \/ try_read_poll_timeout /\ UNCHANGED <<historyVars, nonUnixVars>>
    \/ try_read_tty /\ UNCHANGED <<historyVars, nonUnixVars>>
    \/ try_read_signal /\ sigAt' = NoSignal /\ wakeCount' = wakeCount /\ UNCHANGED nonUnixVars
    \/ try_read_wake /\ UNCHANGED <<historyVars, nonUnixVars>>
    \/ try_read_loop_end /\ UNCHANGED <<historyVars, nonUnixVars>>

SpecSignal == Init /\ [][NextSignal]_vars

(* The step in which try_read services resize-signal readiness with a signal pending. *)
ServiceStep ==
    /\ pc = "dispatch"
    /\ events # <<>>
    /\ Head(events) = SIGNAL_TOKEN
    /\ signalPending
    /\ TryReadStep

ResizeNow == OkSome(ResizeEv(termSize[1], termSize[2]), "signal")

(* C12 as stated: every servicing of a pending resize signal returns one
   Resize carrying the size the terminal has at that moment. *)
C12_Original ==
    [][ServiceStep => (ret' = ResizeNow /\ ~signalPending' /\ parser' = parser)]_vars

(* C12: servicing a pending resize signal consumes the signal, ends the call, and
   leaves the parser and the tty alone; it returns one Resize carrying the size the
   terminal has at servicing time, or the error of the size query when that query
   fails; and try_read returns a Resize in no other step. *)
C12_ResizeAtServicing ==
    [][/\ ServiceStep =>
              /\ ret' = ResizeNow \/ ret' = IoErr("size")
              /\ pc' # "dispatch"
              /\ ~signalPending'
              /\ parser' = parser
              /\ tty' = tty
       /\ (TryReadStep /\ ret' # ret /\ ret'.kind = "event" /\ ret'.ev.t = "Resize") =>
              (ServiceStep /\ ret'.why = "signal")]_vars

(* The signal was delivered for 100x30, the window went back to 80x24 before the
   signal is serviced, and the event will say 80x24. *)
C12_Witness ==
    /\ pc = "dispatch"
    /\ events # <<>>
    /\ Head(events) = SIGNAL_TOKEN
    /\ signalPending
    /\ sigAt.size = <<100, 30>>
    /\ termSize = <<80, 24>>
    /\ ENABLED (try_read_signal /\ ret' = OkSome(ResizeEv(80, 24), "signal"))


(* A resize signal is pending that was delivered while the tty held no unread byte:
   every byte now on the tty arrived after the signal. *)
SignalBeforeBytes == signalPending /\ sigAt.quiet

(* C13 as stated: while a resize signal is pending that was delivered before the
   bytes now on the tty arrived, try_read returns no event decoded from those
   bytes: the Resize comes first, whatever the order of the tokens in the batch. *)
C13_ResizeBeforeLaterBytes ==
    [][(AdvanceStep /\ ret'.kind = "event" /\ ret'.why = "tty") => ~SignalBeforeBytes]_vars

(* The wait reported the tty before the signal: Char(A), typed after the SIGWINCH,
   has been returned and the signal is still pending. *)
C13_Witness ==
    /\ pc = "idle"
    /\ SignalBeforeBytes
    /\ ret = OkSome(KeyEv("Char", 65, {}), "tty")
    /\ parser = ParserDefault


(* A wake is in flight: its byte is in the pipe, or its token is in the batch. *)
WakeInFlight == wakePipe > 0 \/ \E i \in 1..Len(events) : events[i] = WAKE_TOKEN

(* C14: with a wake in flight, a call that finds the FIFO non-empty at entry
   returns its head; a tty chunk handled before the wake token that yields an event
   makes the call return that event; and the step that handles the wake token returns
   Ok(None) only from an empty FIFO and leaves the parser (pending bytes and FIFO) and the
   unread tty bytes as they were. *)
C14_WakeDropsNothing ==
    [][/\ (WakeInFlight /\ EnterStep /\ Fifo # <<>>) =>
              (ret' = OkSome(Head(Fifo), "fifo") /\ Fifo' = Tail(Fifo)
               /\ parser'.buffer = parser.buffer)
       /\ (WakeInFlight /\ AdvanceStep) =>
              LET p == advance(parser, TtyChunk, MoreAfterRead)
              IN  /\ parser'.buffer = p.buffer
                  /\ p.internal_events # <<>> =>
                         (ret' = OkSome(Head(p.internal_events), "tty")
                          /\ Fifo' = Tail(p.internal_events))
       /\ (pc = "dispatch" /\ events # <<>> /\ Head(events) = WAKE_TOKEN /\ TryReadStep) =>
              (ret' = OkNone("wake") /\ Fifo = <<>> /\ parser' = parser /\ tty' = tty)]_vars

(* The batch lists the tty before the wake pipe, Esc is pending in the parser and
   'A' is on the tty: the call returns Alt+A and the wake byte stays in the pipe. *)
C14_Witness ==
    /\ pc = "dispatch"
    /\ events = <<TTY_TOKEN, WAKE_TOKEN>>
    /\ parser = [buffer |-> <<Byte.ESC>>, internal_events |-> <<>>]
    /\ tty = <<65>>
    /\ ENABLED (try_read_tty /\ ret' = OkSome(KeyEv("Char", 65, {"ALT"}), "tty")
                /\ wakePipe' = wakePipe)


(***************************************************************************)
(* SpecWake: the event source with the wake() calls and the wake returns   *)
(* of try_read counted.  The callers wait without a timeout or not at all, *)
(* the typist types 'A', and the window is not resized, so the             *)
(* SIGNAL_TOKEN arm has nothing to service.                                *)
(***************************************************************************)
(* wake() calls per run. *)
MaxWakeCalls == 2

(* wake() is called once more. *)
WakeCounted ==
    /\ wakeCount.calls < MaxWakeCalls
    /\ wake
    /\ wakeCount' = [wakeCount EXCEPT !.calls = @ + 1]
    /\ sigAt' = sigAt
    /\ UNCHANGED nonUnixVars

(* try_read handles the wake token: one more wake return, and as many bytes
   consumed as left the pipe. *)
WakeReturnCounted ==
    /\ try_read_wake
    /\ wakeCount' = [wakeCount EXCEPT !.returns = Min(@ + 1, MaxWakeCalls + 1),
                                      !.consumed = @ + (wakePipe - wakePipe')]
    /\ sigAt' = sigAt
    /\ UNCHANGED nonUnixVars

NextWake ==
    \/ WakeCounted
    \/ WakeReturnCounted
    \/ TtyInput(65) /\ UNCHANGED <<historyVars, nonUnixVars>>
    \/ (\E t \in {NoTimeout, SomeTimeout(0)} : poll(t)) /\ UNCHANGED <<historyVars, nonUnixVars>>
    \/ read /\ UNCHANGED <<historyVars, nonUnixVars>>
    \/ try_read_enter /\ UNCHANGED <<historyVars, nonUnixVars>>
    \/ try_read_poll_err /\ UNCHANGED <<historyVars, nonUnixVars>>
    \/ try_read_poll_ready /\ UNCHANGED <<historyVars, nonUnixVars>>
    \/ try_read_poll_timeout /\ UNCHANGED <<historyVars, nonUnixVars>>
    \/ try_read_tty /\ UNCHANGED <<historyVars, nonUnixVars>>
    \/ try_read_loop_end /\ UNCHANGED <<historyVars, nonUnixVars>>

SpecWake == Init /\ [][NextWake]_vars

(* C15 as stated: the wake returns of try_read never outnumber the wake() calls. *)
C15_Original == wakeCount.returns <= wakeCount.calls

(* C15: a wake() call puts at most one byte into the pipe, a try_read that handles
   the wake token takes at most one byte out and returns, and nothing else moves
   the pipe; so the wake returns whose one-byte read succeeded, together with the
   bytes still in the pipe, never outnumber the wake() calls. *)
C15_WakeBytesCounted ==
    /\ [](wakeCount.consumed + wakePipe <= wakeCount.calls)
    /\ [][/\ wakeCount'.calls # wakeCount.calls =>
                 (wakePipe' \in {wakePipe, wakePipe + 1} /\ wakeCount'.calls = wakeCount.calls + 1)
          /\ wakeCount'.returns # wakeCount.returns =>
                 (wakePipe' \in {wakePipe, wakePipe - 1} /\ ret' = OkNone("wake"))
          /\ (wakeCount'.calls = wakeCount.calls /\ wakeCount'.returns = wakeCount.returns
              /\ wakeCount.returns <= MaxWakeCalls) =>
                 wakePipe' = wakePipe]_vars

(* Two wake() calls, two wake returns, both bytes consumed. *)
C15_Witness ==
    /\ wakeCount = [calls |-> 2, returns |-> 2, consumed |-> 2]
    /\ wakePipe = 0
    /\ pc = "idle"
    /\ ret = OkNone("wake")


(***************************************************************************)
(* Windows: mouse capture and the saved console mode (windows.rs:36-72).   *)
(***************************************************************************)
(* enable / disable_mouse_capture calls per run. *)
MaxCaptureCalls == 3

(* Console input modes: the usual default 0x01F7, 0x0007, and ENABLE_MOUSE_MODE. *)
ConsoleModes == {503, 7, ENABLE_MOUSE_MODE}

CaptureOk(call) == [call |-> call, result |-> "Ok", why |-> "none", n |-> captureRet.n + 1]

CaptureErr(call, why) == [call |-> call, result |-> "Err", why |-> why, n |-> captureRet.n + 1]

CapturePanic(call, why) ==
    [call |-> call, result |-> "panic", why |-> why, n |-> captureRet.n + 1]

(* init_original_console_mode storing whatever it is given. *)
init_original_console_mode_overwrites(lock, original_mode) == SomeMode(original_mode)

(* windows.rs:43-49 -- the value of the static after the call. *)
init_original_console_mode(lock, original_mode) ==
    IF ~lock.some THEN SomeMode(original_mode) ELSE lock

(* original_console_mode falling back to mode 0 when nothing was saved. *)
original_console_mode_or_zero(lock) ==
    [panics |-> FALSE, mode |-> lock.mode]

(* windows.rs:52-58 -- expect() on the Option: a panic when it is None. *)
original_console_mode(lock) ==
    [panics |-> ~lock.some, mode |-> lock.mode]

(* windows.rs:60-66 -- enable_mouse_capture: get the handle, read the mode, save it if
   nothing is saved yet, set ENABLE_MOUSE_MODE.  Each '?' may return an error;
   lock().unwrap() panics when the mutex is poisoned. *)
enable_mouse_capture ==
    /\ captureRet.n < MaxCaptureCalls
    /\ \/ /\ captureRet' = CaptureErr("enable", "handle")
          /\ UNCHANGED <<ORIGINAL_CONSOLE_MODE, poisoned, consoleMode, modeReads>>
       \/ /\ captureRet' = CaptureErr("enable", "mode")
          /\ UNCHANGED <<ORIGINAL_CONSOLE_MODE, poisoned, consoleMode, modeReads>>
       \/ /\ modeReads' = Append(modeReads, consoleMode)
          /\ IF poisoned
             THEN /\ captureRet' = CapturePanic("enable", "poisoned")
                  /\ UNCHANGED <<ORIGINAL_CONSOLE_MODE, poisoned, consoleMode>>
             ELSE /\ ORIGINAL_CONSOLE_MODE' =
                         init_original_console_mode(ORIGINAL_CONSOLE_MODE, consoleMode)
                  /\ poisoned' = poisoned
                  /\ \/ /\ captureRet' = CaptureErr("enable", "set_mode")
                        /\ consoleMode' = consoleMode
                     \/ /\ captureRet' = CaptureOk("enable")
                        /\ consoleMode' = ENABLE_MOUSE_MODE
    /\ UNCHANGED <<unixVars, keyVars, otherVars>>

(* windows.rs:68-72 -- disable_mouse_capture: get the handle, then
   set_mode(original_console_mode()).  The saved mode is looked up with the lock
   held, so a panic there poisons the mutex. *)
disable_mouse_capture ==
    /\ captureRet.n < MaxCaptureCalls
    /\ \/ /\ captureRet' = CaptureErr("disable", "handle")
          /\ UNCHANGED <<ORIGINAL_CONSOLE_MODE, poisoned, consoleMode, modeReads>>
       \/ LET original == original_console_mode(ORIGINAL_CONSOLE_MODE)
          IN  IF poisoned
              THEN /\ captureRet' = CapturePanic("disable", "poisoned")
                   /\ UNCHANGED <<ORIGINAL_CONSOLE_MODE, poisoned, consoleMode, modeReads>>
              ELSE IF original.panics
              THEN /\ captureRet' = CapturePanic("disable", "Original console mode not set")
                   /\ poisoned' = TRUE
                   /\ UNCHANGED <<ORIGINAL_CONSOLE_MODE, consoleMode, modeReads>>
              ELSE /\ \/ /\ captureRet' = CaptureErr("disable", "set_mode")
                         /\ consoleMode' = consoleMode
                      \/ /\ captureRet' = CaptureOk("disable")
                         /\ consoleMode' = original.mode
                   /\ UNCHANGED <<ORIGINAL_CONSOLE_MODE, poisoned, modeReads>>
    /\ UNCHANGED <<unixVars, keyVars, otherVars>>

(* Something else (the user, another call of the program) changes the console mode. *)
ConsoleModeChanged(m) ==
    /\ m # consoleMode
    /\ consoleMode' = m
    /\ UNCHANGED <<ORIGINAL_CONSOLE_MODE, poisoned, captureRet, modeReads>>
    /\ UNCHANGED <<unixVars, keyVars, otherVars>>

UnixAtRest ==
    /\ parser = ParserDefault
    /\ tty = <<>>
    /\ ttyHup = FALSE
    /\ signalPending = FALSE
    /\ termSize = <<80, 24>>
    /\ wakePipe = 0
    /\ pc = "idle"
    /\ timeout = NoTimeout
    /\ elapsed = 0
    /\ events = <<>>
    /\ ret = NoResult
    /\ op = "none"
    /\ queue = <<>>
    /\ opRet = NoOpResult
    /\ input = <<>>
    /\ fed = <<>>
    /\ before = ParserDefault
    /\ sigAt = NoSignal
    /\ wakeCount = NoWakes

InitCapture ==
    /\ UnixAtRest
    /\ CaptureAtStart
    /\ consoleMode \in ConsoleModes
    /\ keyRecord = NoKeyRecord
    /\ keyResult = NotDecoded
    /\ OthersAtRest

NextCapture ==
    \/ enable_mouse_capture
    \/ disable_mouse_capture
    \/ \E m \in ConsoleModes : ConsoleModeChanged(m)

SpecCapture == InitCapture /\ [][NextCapture]_vars

(* A call of disable_mouse_capture is made in this step. *)
DisableStep == captureRet'.n # captureRet.n /\ captureRet'.call = "disable"

(* C16 as stated: once a mode is saved it is the mode the first enable read and no
   later call changes it, and every disable sets the console mode to it. *)
C16_Original ==
    /\ []((~poisoned /\ modeReads # <<>>) => ORIGINAL_CONSOLE_MODE = SomeMode(Head(modeReads)))
    /\ [][ORIGINAL_CONSOLE_MODE.some => ORIGINAL_CONSOLE_MODE' = ORIGINAL_CONSOLE_MODE]_vars
    /\ [][(DisableStep /\ ORIGINAL_CONSOLE_MODE.some) =>
              consoleMode' = ORIGINAL_CONSOLE_MODE.mode]_vars

(* C16: once an enable has read the console mode (and no disable panicked before
   it), the saved mode is the mode that first enable read; no later call changes
   it, whatever the console mode has become; and a disable made with a mode saved
   either returns Ok, having set the console mode to the saved value, or returns
   the error of the handle or of set_mode and leaves the console mode as it was. *)
C16_FirstEnableWins ==
    /\ []((~poisoned /\ modeReads # <<>>) => ORIGINAL_CONSOLE_MODE = SomeMode(Head(modeReads)))
    /\ [][ORIGINAL_CONSOLE_MODE.some => ORIGINAL_CONSOLE_MODE' = ORIGINAL_CONSOLE_MODE]_vars
    /\ [][(DisableStep /\ ORIGINAL_CONSOLE_MODE.some) =>
              \/ captureRet'.result = "Ok" /\ consoleMode' = ORIGINAL_CONSOLE_MODE.mode
              \/ /\ captureRet'.result = "Err"
                 /\ captureRet'.why \in {"handle", "set_mode"}
                 /\ consoleMode' = consoleMode]_vars

(* enable read 0x01F7, the mode became 0x0007, a second enable read that, and the
   disable put 0x01F7 back. *)
C16_Witness ==
    /\ modeReads = <<503, 7>>
    /\ ORIGINAL_CONSOLE_MODE = SomeMode(503)
    /\ captureRet = [call |-> "disable", result |-> "Ok", why |-> "none", n |-> 3]
    /\ consoleMode = 503

(* C17 as stated: a disable made while nothing is saved panics. *)
C17_Original ==
    [][(DisableStep /\ ~ORIGINAL_CONSOLE_MODE.some) => captureRet'.result = "panic"]_vars

(* C17: a disable made while nothing is saved never returns Ok and never changes
   the console mode or the saved value: once it has the console handle it panics
   ('Original console mode not set'); it returns Err only when getting the handle
   fails, which happens before the saved mode is looked up. *)
C17_DisableBeforeEnable ==
    [][(DisableStep /\ ~ORIGINAL_CONSOLE_MODE.some) =>
           /\ consoleMode' = consoleMode
           /\ ORIGINAL_CONSOLE_MODE' = ORIGINAL_CONSOLE_MODE
           /\ \/ captureRet'.result = "panic"
              \/ captureRet'.result = "Err" /\ captureRet'.why = "handle"]_vars

(* The first call made was a disable, and it panicked. *)
C17_Witness ==
    /\ captureRet = [call |-> "disable", result |-> "panic",
                     why |-> "Original console mode not set", n |-> 1]
    /\ ~ORIGINAL_CONSOLE_MODE.some
    /\ modeReads = <<>>


(***************************************************************************)
(* Windows: decoding of key records (windows.rs:81-174).                   *)
(***************************************************************************)
(* winuser.h virtual-key codes imported at windows.rs:23-26. *)
VK ==
    [BACK |-> 8, RETURN |-> 13, SHIFT |-> 16, CONTROL |-> 17, MENU |-> 18,
     ESCAPE |-> 27, PRIOR |-> 33, NEXT |-> 34, END |-> 35, HOME |-> 36,
     LEFT |-> 37, UP |-> 38, RIGHT |-> 39, DOWN |-> 40, INSERT |-> 45,
     DELETE |-> 46, F1 |-> 112, F24 |-> 135]

(* wincon.h control-key-state bits imported at windows.rs:20-22. *)
KeyState ==
    [RIGHT_ALT_PRESSED |-> 1, LEFT_ALT_PRESSED |-> 2, RIGHT_CTRL_PRESSED |-> 4,
     LEFT_CTRL_PRESSED |-> 8, SHIFT_PRESSED |-> 16]

(* ControlKeyState::has_state(mask): some bit of the mask is set.  A state and a
   mask are the sets of their bits. *)
has_state(control_key_state, mask) == control_key_state \cap mask # {}

ALT_PRESSED == {KeyState.LEFT_ALT_PRESSED, KeyState.RIGHT_ALT_PRESSED}

CTRL_PRESSED == {KeyState.LEFT_CTRL_PRESSED, KeyState.RIGHT_CTRL_PRESSED}

(* 'x as u8' *)
AsU8(x) == x % 256

(* char::is_alphabetic on the characters U+0000..U+00FF. *)
is_alphabetic(c) ==
    \/ c \in 65..90
    \/ c \in 97..122
    \/ c \in {170, 181, 186}
    \/ c \in 192..214
    \/ c \in 216..246
    \/ c \in 248..255

WinOk(value) == [result |-> "Ok", value |-> value]

(* The Alt branch emitting Char for every command. *)
alt_key_any_command(command) == Some(KeyEv("Char", command, {"ALT"}))

(* windows.rs:141-147 -- Alt held: the virtual-key code is the command. *)
alt_key(command) ==
    IF is_alphabetic(command) THEN Some(KeyEv("Char", command, {"ALT"})) ELSE None

(* The Control branch with one range 0x01..=0x1F. *)
control_key_one_range(c) ==
    IF c \in 1..31 THEN Some(KeyEv("Char", AsU8(c - 1 + 97), {"CONTROL"})) ELSE None

(* windows.rs:149-157 -- Control held: 0x01..=0x1A and 0x1C..=0x1F. *)
control_key(c) ==
    IF c \in 1..26 THEN Some(KeyEv("Char", AsU8(c - 1 + 97), {"CONTROL"}))
    ELSE IF c \in 28..31 THEN Some(KeyEv("Char", AsU8(c - 28 + 52), {"CONTROL"}))
    ELSE None

(* The last branches reporting Shift+Tab as Tab with the SHIFT modifier. *)
plain_key_shift_tab(key_state, character) ==
    IF has_state(key_state, {KeyState.SHIFT_PRESSED}) /\ character = 9
    THEN Some(KeyEv("Tab", 0, {"SHIFT"}))
    ELSE IF character = 9 THEN Some(KeyEv("Tab", 0, {}))
    ELSE Some(KeyEv("Char", character, {}))

(* windows.rs:158-167 -- neither Alt nor Control held: BackTab, Tab or the character. *)
plain_key(key_state, character) ==
    IF has_state(key_state, {KeyState.SHIFT_PRESSED}) /\ character = 9
    THEN Some(KeyEv("BackTab", 0, {}))
    ELSE IF character = 9 THEN Some(KeyEv("Tab", 0, {}))
    ELSE Some(KeyEv("Char", character, {}))

(* windows.rs:91-174 *)
parse_key_event_record(key_event) ==
    LET key_code  == key_event.virtual_key_code
        key_state == key_event.control_key_state
        control   == IF has_state(key_state, CTRL_PRESSED) THEN {"CONTROL"} ELSE {}
        shift     == IF has_state(key_state, {KeyState.SHIFT_PRESSED}) THEN {"SHIFT"} ELSE {}
        character_raw == key_event.u_char
    IN  IF key_code \in {VK.SHIFT, VK.CONTROL, VK.MENU} THEN None
        ELSE IF key_code = VK.BACK THEN Some(KeyEv("Backspace", 0, {}))
        ELSE IF key_code = VK.ESCAPE THEN Some(KeyEv("Esc", 0, {}))
        ELSE IF key_code = VK.RETURN THEN Some(KeyEv("Enter", 0, {}))
        ELSE IF key_code \in VK.F1..VK.F24 THEN Some(KeyEv("F", AsU8(key_code - 111), {}))
        ELSE IF key_code = VK.LEFT THEN Some(KeyEv("Left", 0, control \cup shift))
        ELSE IF key_code = VK.UP THEN Some(KeyEv("Up", 0, control \cup shift))
        ELSE IF key_code = VK.RIGHT THEN Some(KeyEv("Right", 0, control \cup shift))
        ELSE IF key_code = VK.DOWN THEN Some(KeyEv("Down", 0, control \cup shift))
        ELSE IF key_code = VK.PRIOR THEN Some(KeyEv("PageUp", 0, {}))
        ELSE IF key_code = VK.NEXT THEN Some(KeyEv("PageDown", 0, {}))
        ELSE IF key_code = VK.HOME THEN Some(KeyEv("Home", 0, {}))
        ELSE IF key_code = VK.END THEN Some(KeyEv("End", 0, {}))
        ELSE IF key_code = VK.DELETE THEN Some(KeyEv("Delete", 0, {}))
        ELSE IF key_code = VK.INSERT THEN Some(KeyEv("Insert", 0, {}))
        ELSE IF character_raw < 255
             THEN LET character == AsU8(character_raw)
                  IN  IF has_state(key_state, ALT_PRESSED)
                      THEN alt_key(AsU8(key_event.virtual_key_code))
                      ELSE IF has_state(key_state, CTRL_PRESSED)
                      THEN control_key(AsU8(character_raw))
                      ELSE plain_key(key_state, character)
             ELSE None

(* handle_key_event decoding key-up records too. *)
handle_key_event_any_record(key_event) ==
    LET event == parse_key_event_record(key_event)
    IN  IF event.kind = "Some" THEN WinOk(event) ELSE WinOk(None)

(* windows.rs:81-89 *)
handle_key_event(key_event) ==
    LET event == parse_key_event_record(key_event)
    IN  IF key_event.key_down /\ event.kind = "Some" THEN WinOk(event) ELSE WinOk(None)

(* Virtual keys: the ones the decoder names, then A, Z, 1, Space, Tab, F2, the OEM
   keys 0xBA, 0xC0 and 0xDB, VK_LSHIFT (0xA0), and a code above 0xFF. *)
VirtualKeyCodes ==
    {VK.BACK, VK.RETURN, VK.SHIFT, VK.CONTROL, VK.MENU, VK.ESCAPE, VK.PRIOR, VK.NEXT,
     VK.END, VK.HOME, VK.LEFT, VK.UP, VK.RIGHT, VK.DOWN, VK.INSERT, VK.DELETE,
     VK.F1, VK.F24}
    \cup {65, 90, 49, 32, 9, 113, 186, 192, 219, 160, 321}

(* Character codes: NUL, the control range and its edges, Tab, printable ASCII,
   Latin-1, the codes around 255, and a code above 0xFF. *)
UnicodeChars == {0, 1, 9, 10, 13, 26, 27, 28, 31, 32, 52, 65, 97, 233, 254, 255, 256, 8364}

KeyRecords ==
    [key_down : BOOLEAN,
     virtual_key_code : VirtualKeyCodes,
     u_char : UnicodeChars,
     control_key_state : SUBSET {KeyState.RIGHT_ALT_PRESSED, KeyState.LEFT_ALT_PRESSED,
                                 KeyState.RIGHT_CTRL_PRESSED, KeyState.LEFT_CTRL_PRESSED,
                                 KeyState.SHIFT_PRESSED}]

InitKey ==
    /\ UnixAtRest
    /\ CaptureAtStart
    /\ consoleMode = ENABLE_MOUSE_MODE
    /\ keyRecord \in KeyRecords
    /\ keyResult = NotDecoded
    /\ OthersAtRest

(* The console delivers the record and handle_key_event decodes it. *)
DecodeKey ==
    /\ keyResult = NotDecoded
    /\ keyResult' = handle_key_event(keyRecord)
    /\ UNCHANGED <<keyRecord, unixVars, captureVars, otherVars>>

NextKey == DecodeKey

SpecKey == InitKey /\ [][NextKey]_vars

Decoded == keyResult # NotDecoded

(* The virtual keys parse_key_event_record has an arm for. *)
SpecialKeys ==
    {VK.SHIFT, VK.CONTROL, VK.MENU, VK.BACK, VK.ESCAPE, VK.RETURN, VK.LEFT, VK.UP,
     VK.RIGHT, VK.DOWN, VK.PRIOR, VK.NEXT, VK.HOME, VK.END, VK.DELETE, VK.INSERT}
    \cup (VK.F1..VK.F24)

AltHeld == keyRecord.control_key_state \cap ALT_PRESSED # {}

CtrlHeld == keyRecord.control_key_state \cap CTRL_PRESSED # {}

(* C18: handle_key_event never returns an error; it returns an event only for a
   key-down record; and a key-up record, or a record whose virtual key is Shift,
   Control or Menu, gives Ok(None) whatever its other fields. *)
C18_OnlyKeyDown ==
    Decoded =>
        /\ keyResult.result = "Ok"
        /\ keyResult.value.kind = "Some" => keyRecord.key_down
        /\ (~keyRecord.key_down
            \/ keyRecord.virtual_key_code \in {VK.SHIFT, VK.CONTROL, VK.MENU}) =>
               keyResult = WinOk(None)

(* The key-up record of the A key, with character 'a', gave no event. *)
C18_Witness ==
    /\ keyRecord = [key_down |-> FALSE, virtual_key_code |-> 65, u_char |-> 97,
                    control_key_state |-> {}]
    /\ keyResult = WinOk(None)

(* C19: for a key-down record of a key that is not special, with a character code
   below 255 and an Alt bit set, the result is Char(virtual-key code as u8 as char)
   with exactly the ALT modifier when that character is alphabetic, and no event
   otherwise -- whether or not Control or Shift bits are set as well. *)
C19_AltNeedsAlphabeticKey ==
    (/\ Decoded
     /\ keyRecord.key_down
     /\ keyRecord.virtual_key_code \notin SpecialKeys
     /\ keyRecord.u_char < 255
     /\ AltHeld) =>
        LET command == keyRecord.virtual_key_code % 256
        IN  IF is_alphabetic(command)
            THEN keyResult = WinOk(Some(KeyEv("Char", command, {"ALT"})))
            ELSE keyResult = WinOk(None)

(* Alt+Ctrl+A (character code 0x01) gave Alt+Char('A'), not Ctrl+Char('a'). *)
C19_Witness ==
    /\ keyRecord = [key_down |-> TRUE, virtual_key_code |-> 65, u_char |-> 1,
                    control_key_state |-> {KeyState.LEFT_ALT_PRESSED,
                                           KeyState.LEFT_CTRL_PRESSED}]
    /\ keyResult = WinOk(Some(KeyEv("Char", 65, {"ALT"})))

(* What C20 gives for character code c. *)
ControlChar(c) ==
    IF c \in 1..26 THEN WinOk(Some(KeyEv("Char", 96 + c, {"CONTROL"})))
    ELSE IF c \in 28..31 THEN WinOk(Some(KeyEv("Char", 24 + c, {"CONTROL"})))
    ELSE WinOk(None)

(* C20 as stated: for every key-down record with a Control bit and no Alt bit, the
   result is decided by the character code alone. *)
C20_Original ==
    (Decoded /\ keyRecord.key_down /\ CtrlHeld /\ ~AltHeld) =>
        keyResult = ControlChar(keyRecord.u_char)

(* C20: for a key-down record of a key that is not special, with a Control bit and
   no Alt bit, character codes 0x01-0x1A give Char('a'..'z') with CONTROL, codes
   0x1C-0x1F give Char('4'..'7') with CONTROL, and every other code gives no event. *)
C20_ControlRange ==
    (/\ Decoded
     /\ keyRecord.key_down
     /\ keyRecord.virtual_key_code \notin SpecialKeys
     /\ CtrlHeld
     /\ ~AltHeld) =>
        keyResult = ControlChar(keyRecord.u_char)

(* Ctrl+Escape-range: the key '[' (0xDB) with character code 0x1B gave no event. *)
C20_Witness ==
    /\ keyRecord = [key_down |-> TRUE, virtual_key_code |-> 219, u_char |-> 27,
                    control_key_state |-> {KeyState.LEFT_CTRL_PRESSED}]
    /\ keyResult = WinOk(None)

ShiftHeld == KeyState.SHIFT_PRESSED \in keyRecord.control_key_state

(* A key-down record of the Tab key: virtual key VK_TAB, character code '\t'. *)
TabKeyDown ==
    /\ keyRecord.key_down
    /\ keyRecord.virtual_key_code = 9
    /\ keyRecord.u_char = 9

(* C21: a Tab key-down with Shift held and neither Alt nor Control held gives
   BackTab with no modifier (not Tab with SHIFT), and a Tab key-down with no
   modifier held gives Tab with no modifier. *)
C21_ShiftTabIsBackTab ==
    (Decoded /\ TabKeyDown /\ ~AltHeld /\ ~CtrlHeld) =>
        /\ ShiftHeld => keyResult = WinOk(Some(KeyEv("BackTab", 0, {})))
        /\ keyRecord.control_key_state = {} => keyResult = WinOk(Some(KeyEv("Tab", 0, {})))

(* Shift+Tab was decoded, and gave BackTab. *)
C21_Witness ==
    /\ keyRecord = [key_down |-> TRUE, virtual_key_code |-> 9, u_char |-> 9,
                    control_key_state |-> {KeyState.SHIFT_PRESSED}]
    /\ keyResult = WinOk(Some(KeyEv("BackTab", 0, {})))

(***************************************************************************)
(* Windows: decoding of mouse records (windows.rs:74-79, 176-254).         *)
(***************************************************************************)
MaxMouseRecords == 2

(* 'x as u16' *)
AsU16(x) == x % 65536

(* i16 arithmetic, wrapping as a release build does. *)
AsI16(x) == ((x + 32768) % 65536) - 32768

WinErr == [result |-> "Err", value |-> None]

(* crossterm_winapi::EventFlags *)
EventFlagsValues ==
    {"PressOrRelease", "MouseMoved", "MouseWheeled", "DoubleClick", "MouseHwheeled"}

(* crossterm_winapi::ButtonState *)
ButtonStates ==
    {"Release", "FromLeft1stButtonPressed", "RightmostButtonPressed",
     "FromLeft2ndButtonPressed", "FromLeft3rdButtonPressed", "FromLeft4thButtonPressed",
     "Unknown", "Negative"}

(* Mouse positions are cells of the screen buffer. *)
MouseColumns == {0, 7}

MouseRows == {2, 5}

WindowTops == {0, 3, 5}

MouseRecords ==
    [event_flags : EventFlagsValues, button_state : ButtonStates,
     x : MouseColumns, y : MouseRows]

(* windows.rs:178-181 -- window is what ScreenBuffer::current()?.info()? gave. *)
parse_relative_y(y, window) ==
    IF window.ok THEN [result |-> "Ok", value |-> AsI16(y - window.top)] ELSE WinErr

(* The wheel arm with the two directions exchanged. *)
mouse_wheeled_swapped(button_state, xpos, ypos) ==
    IF button_state # "Negative"
    THEN Some(MouseEv("PressWheelDown", xpos, ypos))
    ELSE Some(MouseEv("PressWheelUp", xpos, ypos))

(* windows.rs:231-248 *)
mouse_wheeled(button_state, xpos, ypos) ==
    IF button_state # "Negative"
    THEN Some(MouseEv("PressWheelUp", xpos, ypos))
    ELSE Some(MouseEv("PressWheelDown", xpos, ypos))

(* windows.rs:183-254 *)
parse_mouse_event_record(event, window) ==
    LET xpos == AsU16(event.x)
        y    == parse_relative_y(event.y, window)
    IN  IF y.result = "Err" THEN WinErr
        ELSE LET ypos == AsU16(y.value)
             IN  WinOk(
                 CASE event.event_flags = "PressOrRelease" ->
                        CASE event.button_state = "Release" ->
                               Some(MouseEv("Release", xpos, ypos))
                          [] event.button_state = "FromLeft1stButtonPressed" ->
                               Some(MouseEv("PressLeft", xpos, ypos))
                          [] event.button_state = "RightmostButtonPressed" ->
                               Some(MouseEv("PressRight", xpos, ypos))
                          [] event.button_state = "FromLeft2ndButtonPressed" ->
                               Some(MouseEv("PressMiddle", xpos, ypos))
                          [] OTHER -> None
                   [] event.event_flags = "MouseMoved" ->
                        IF event.button_state # "Release"
                        THEN Some(MouseEv("Hold", xpos, ypos))
                        ELSE None
                   [] event.event_flags = "MouseWheeled" ->
                        mouse_wheeled(event.button_state, xpos, ypos)
                   [] event.event_flags = "DoubleClick" -> None
                   [] event.event_flags = "MouseHwheeled" -> None)

(* windows.rs:74-79 -- 'if let Ok(Some(event)) = ... { return Ok(Some(..)) } Ok(None)' *)
handle_mouse_event(mouse_event, window) ==
    LET r == parse_mouse_event_record(mouse_event, window)
    IN  IF r.result = "Ok" /\ r.value.kind = "Some" THEN WinOk(r.value) ELSE WinOk(None)

InitMouse ==
    /\ UnixAtRest
    /\ CaptureAtStart
    /\ consoleMode = ENABLE_MOUSE_MODE
    /\ keyRecord = NoKeyRecord
    /\ keyResult = NotDecoded
    /\ mouseRecord = NoMouseRecord
    /\ windowTop \in WindowTops
    /\ window_size = NoWindow
    /\ mouseResult = NotDecoded
    /\ mouseCount = 0
    /\ WinPollAtRest
    /\ CursorAtRest
    /\ LockAtRest
    /\ AsyncAtRest
    /\ RestAtRest

(* The console delivers a mouse record; the pointer is inside the window, so the
   record's row is not above the window top of that moment. *)
MouseInput(record) ==
    /\ mouseCount < MaxMouseRecords
    /\ record.y >= windowTop
    /\ mouseRecord = NoMouseRecord \/ mouseResult # NotDecoded
    /\ mouseRecord' = record
    /\ mouseResult' = NotDecoded
    /\ window_size' = NoWindow
    /\ mouseCount' = mouseCount + 1
    /\ UNCHANGED windowTop

(* Output scrolls the window within the screen buffer. *)
WindowScroll(top) ==
    /\ top # windowTop
    /\ windowTop' = top
    /\ UNCHANGED <<mouseRecord, window_size, mouseResult, mouseCount>>

(* handle_mouse_event runs on the delivered record; the window query it makes
   answers with the window as it is now, or fails. *)
DecodeMouse ==
    /\ mouseRecord # NoMouseRecord
    /\ mouseResult = NotDecoded
    /\ \E ok \in BOOLEAN :
          /\ window_size' = IF ok THEN Window(windowTop) ELSE NoWindow
          /\ mouseResult' = handle_mouse_event(mouseRecord, window_size')
    /\ UNCHANGED <<mouseRecord, windowTop, mouseCount>>

NextMouse ==
    \/ (\E record \in MouseRecords : MouseInput(record))
            /\ UNCHANGED <<unixVars, captureVars, keyVars, winPollVars, cursorVars, lockVars, asyncVars, restVars>>
    \/ (\E top \in WindowTops : WindowScroll(top))
            /\ UNCHANGED <<unixVars, captureVars, keyVars, winPollVars, cursorVars, lockVars, asyncVars, restVars>>
    \/ DecodeMouse /\ UNCHANGED <<unixVars, captureVars, keyVars, winPollVars, cursorVars, lockVars, asyncVars, restVars>>

SpecMouse == InitMouse /\ [][NextMouse]_vars

MouseDecoded == mouseResult # NotDecoded

(* What C22 gives for a record, at column x and row y. *)
MouseMapping(record, x, y) ==
    LET flags == record.event_flags
        state == record.button_state
    IN  IF flags = "PressOrRelease"
        THEN IF state = "Release" THEN Some(MouseEv("Release", x, y))
             ELSE IF state = "FromLeft1stButtonPressed" THEN Some(MouseEv("PressLeft", x, y))
             ELSE IF state = "RightmostButtonPressed" THEN Some(MouseEv("PressRight", x, y))
             ELSE IF state = "FromLeft2ndButtonPressed" THEN Some(MouseEv("PressMiddle", x, y))
             ELSE None
        ELSE IF flags = "MouseMoved"
        THEN IF state = "Release" THEN None ELSE Some(MouseEv("Hold", x, y))
        ELSE IF flags = "MouseWheeled"
        THEN IF state = "Negative" THEN Some(MouseEv("PressWheelDown", x, y))
             ELSE Some(MouseEv("PressWheelUp", x, y))
        ELSE None

(* The event of C22 has the kind of the emitted one, or both are no event. *)
SameKind(emitted, expected) ==
    /\ emitted.kind = expected.kind
    /\ emitted.kind = "Some" => emitted.ev.code = expected.ev.code

DecodeMouseStep == mouseResult = NotDecoded /\ mouseResult' # NotDecoded

(* C23 as stated: every emitted mouse event has column x and row y minus the
   window top at the time of decoding, a row that is not negative and, for a
   non-zero top, not the absolute row. *)
C23_RowRelativeToWindow ==
    [][(DecodeMouseStep /\ mouseResult'.value.kind = "Some") =>
          /\ mouseResult'.value.ev.a = mouseRecord.x
          /\ mouseResult'.value.ev.b = mouseRecord.y - windowTop
          /\ mouseResult'.value.ev.b >= 0
          /\ windowTop # 0 => mouseResult'.value.ev.b # mouseRecord.y]_vars

(* A record made at absolute row 2 was decoded after the window top had moved to
   row 3, and the emitted row is 65535. *)
C23_Witness ==
    /\ mouseRecord = [event_flags |-> "PressOrRelease",
                      button_state |-> "FromLeft1stButtonPressed", x |-> 7, y |-> 2]
    /\ window_size = Window(3)
    /\ mouseResult = WinOk(Some(MouseEv("PressLeft", 7, 65535)))

(* C24 as stated: when the window query fails while a record is decoded,
   handle_mouse_event returns an error. *)
C24_QueryFailurePropagates ==
    (MouseDecoded /\ ~window_size.ok) => mouseResult.result = "Err"

(* The query failed for a left-button press, and handle_mouse_event returned
   Ok(None). *)
C24_Witness ==
    /\ mouseRecord = [event_flags |-> "PressOrRelease",
                      button_state |-> "FromLeft1stButtonPressed", x |-> 7, y |-> 5]
    /\ mouseResult # NotDecoded
    /\ ~window_size.ok
    /\ mouseResult = WinOk(None)

(***************************************************************************)
(* Windows: WinApiPoll and its Semaphore (windows.rs:256-361).  poll and   *)
(* cancel are called from different threads (WinApiPoll is Send + Sync).   *)
(***************************************************************************)
MaxPollCalls == 2

MaxCancelCalls == 3

MaxWait == 1

(* windows.rs:328 -- CreateSemaphoreW(.., 0, 1, ..): initial count 0, maximum 1. *)
SemaphoreInitial == 0

SemaphoreMaximum == 1

PollTimeouts == {INFINITE} \cup (0..MaxWait)

PollOk(output, value) == [output |-> output, result |-> "Ok", value |-> value]

PollErr(output) == [output |-> output, result |-> "Err", value |-> "none"]

PollWaiting == [output |-> "none", result |-> "waiting", value |-> "none"]

(* ReleaseSemaphore adding to the count whatever the maximum. *)
ReleaseSemaphore_no_maximum(count) == [ok |-> TRUE, count |-> count + 1]

(* ReleaseSemaphore(handle, 1, null): refused when the count would pass the
   maximum the semaphore was created with. *)
ReleaseSemaphore(count) ==
    IF count + 1 > SemaphoreMaximum
    THEN [ok |-> FALSE, count |-> count]
    ELSE [ok |-> TRUE, count |-> count + 1]

(* The match of poll taking the semaphore for input. *)
wait_result_semaphore_is_input(output) ==
    CASE output = "WAIT_OBJECT_0"     -> PollOk(output, "Some(true)")
      [] output = "WAIT_OBJECT_0 + 1" -> PollOk(output, "Some(true)")
      [] output = "WAIT_TIMEOUT"      -> PollOk(output, "None")
      [] output = "WAIT_FAILED"       -> PollErr(output)

(* windows.rs:283-301 -- the match on the value WaitForMultipleObjects returned. *)
wait_result(output) ==
    CASE output = "WAIT_OBJECT_0"     -> PollOk(output, "Some(true)")
      [] output = "WAIT_OBJECT_0 + 1" -> PollOk(output, "None")
      [] output = "WAIT_TIMEOUT"      -> PollOk(output, "None")
      [] output = "WAIT_FAILED"       -> PollErr(output)

(* WaitForMultipleObjects(2, [console, semaphore], FALSE, dw_millis): the lowest
   signaled index, else a timeout once dw_millis have passed; or a failure. *)
WaitOutputs ==
    {"WAIT_FAILED"} \cup
    (IF consoleSignaled THEN {"WAIT_OBJECT_0"}
     ELSE IF semaphore.count > 0 THEN {"WAIT_OBJECT_0 + 1"}
     ELSE IF dw_millis # INFINITE /\ waited >= dw_millis THEN {"WAIT_TIMEOUT"}
     ELSE {})

(* windows.rs:267-281 -- WinApiPoll::poll up to the wait; either '?' may return early. *)
poll_wait(timeout_ms, outcome) ==
    /\ waitPc = "idle"
    /\ winCalls.poll < MaxPollCalls
    /\ winCalls' = [winCalls EXCEPT !.poll = @ + 1]
    /\ IF outcome = "ok"
       THEN /\ semaphore' = SomeSemaphore(SemaphoreInitial)
            /\ dw_millis' = timeout_ms
            /\ waited' = 0
            /\ waitPc' = "waiting"
            /\ pollRet' = PollWaiting
       ELSE /\ pollRet' = PollErr(outcome)
            /\ UNCHANGED <<semaphore, dw_millis, waited, waitPc>>
    /\ UNCHANGED <<consoleSignaled, cancelRet>>

(* windows.rs:280-305 -- WinApiPoll::poll from the end of the wait, which ends with
   output; a satisfied wait on the semaphore takes its count; every path but
   WAIT_FAILED clears the field. *)
poll_wake(output) ==
    /\ waitPc = "waiting"
    /\ output \in WaitOutputs
    /\ pollRet' = wait_result(output)
    /\ semaphore' = IF output = "WAIT_FAILED" THEN semaphore ELSE NoSemaphore
    /\ waitPc' = "idle"
    /\ UNCHANGED <<consoleSignaled, dw_millis, waited, cancelRet, winCalls>>

(* cancel keeping a release for the next poll when no semaphore is registered. *)
cancel_remembered ==
    /\ winCalls.cancel < MaxCancelCalls
    /\ winCalls' = [winCalls EXCEPT !.cancel = @ + 1]
    /\ IF semaphore.some
       THEN LET r == ReleaseSemaphore(semaphore.count)
            IN  /\ semaphore' = SomeSemaphore(r.count)
                /\ cancelRet' = [result |-> IF r.ok THEN "Ok" ELSE "Err", released |-> r.ok]
       ELSE /\ cancelRet' = [result |-> "Ok", released |-> FALSE]
            /\ semaphore' = SomeSemaphore(1)
    /\ UNCHANGED <<consoleSignaled, waitPc, dw_millis, waited, pollRet>>

(* windows.rs:308-314 *)
cancel ==
    /\ winCalls.cancel < MaxCancelCalls
    /\ winCalls' = [winCalls EXCEPT !.cancel = @ + 1]
    /\ IF semaphore.some
       THEN LET r == ReleaseSemaphore(semaphore.count)
            IN  /\ semaphore' = SomeSemaphore(r.count)
                /\ cancelRet' = [result |-> IF r.ok THEN "Ok" ELSE "Err", released |-> r.ok]
       ELSE /\ cancelRet' = [result |-> "Ok", released |-> FALSE]
            /\ UNCHANGED semaphore
    /\ UNCHANGED <<consoleSignaled, waitPc, dw_millis, waited, pollRet>>

(* A millisecond passes while the wait is blocked. *)
WaitTick ==
    /\ waitPc = "waiting"
    /\ ~consoleSignaled
    /\ semaphore.count = 0
    /\ dw_millis # INFINITE
    /\ waited < dw_millis
    /\ waited' = waited + 1
    /\ UNCHANGED <<semaphore, consoleSignaled, waitPc, dw_millis, pollRet, cancelRet, winCalls>>

(* An input record arrives at the console. *)
ConsoleInput ==
    /\ ~consoleSignaled
    /\ consoleSignaled' = TRUE
    /\ UNCHANGED <<semaphore, waitPc, dw_millis, waited, pollRet, cancelRet, winCalls>>

(* The caller has read the records the console held. *)
ConsoleDrained ==
    /\ consoleSignaled
    /\ waitPc = "idle"
    /\ consoleSignaled' = FALSE
    /\ UNCHANGED <<semaphore, waitPc, dw_millis, waited, pollRet, cancelRet, winCalls>>

InitWinPoll ==
    /\ UnixAtRest
    /\ CaptureAtStart
    /\ consoleMode = ENABLE_MOUSE_MODE
    /\ keyRecord = NoKeyRecord
    /\ keyResult = NotDecoded
    /\ MouseAtRest
    /\ WinPollAtStart
    /\ consoleSignaled \in BOOLEAN
    /\ CursorAtRest
    /\ LockAtRest
    /\ AsyncAtRest
    /\ RestAtRest

NextWinPoll ==
    \/ (\E t \in PollTimeouts, outcome \in {"ok", "semaphore", "console_handle"} :
            poll_wait(t, outcome))
            /\ UNCHANGED <<unixVars, captureVars, keyVars, mouseVars, cursorVars, lockVars, asyncVars, restVars>>
    \/ (\E output \in WaitOutputs : poll_wake(output))
            /\ UNCHANGED <<unixVars, captureVars, keyVars, mouseVars, cursorVars, lockVars, asyncVars, restVars>>
    \/ cancel /\ UNCHANGED <<unixVars, captureVars, keyVars, mouseVars, cursorVars, lockVars, asyncVars, restVars>>
    \/ WaitTick /\ UNCHANGED <<unixVars, captureVars, keyVars, mouseVars, cursorVars, lockVars, asyncVars, restVars>>
    \/ ConsoleInput /\ UNCHANGED <<unixVars, captureVars, keyVars, mouseVars, cursorVars, lockVars, asyncVars, restVars>>
    \/ ConsoleDrained /\ UNCHANGED <<unixVars, captureVars, keyVars, mouseVars, cursorVars, lockVars, asyncVars, restVars>>

SpecWinPoll == InitWinPoll /\ [][NextWinPoll]_vars

PollReturns == waitPc = "waiting" /\ waitPc' = "idle"

TimeoutElapsed == dw_millis # INFINITE /\ waited >= dw_millis

(* A cancel has released the semaphore of the wait in progress, and the console
   has no input. *)
CancelledWhileWaiting == waitPc = "waiting" /\ semaphore.count > 0 /\ ~consoleSignaled

CancelStep == winCalls'.cancel = winCalls.cancel + 1

(* C25: a poll whose wait ends because the console handle is signaled returns
   Ok(Some(true)); one whose wait ends by timeout, or because cancel released the
   semaphore, returns Ok(None); a cancel made while poll waits releases the
   semaphore; and once it has, with no console input, the wait can end at once
   (whatever is left of the timeout, an infinite one included), no more time passes
   in that wait, and unless the wait itself fails the poll returns Ok(None). *)
C25_PollOutcomes ==
    /\ [](CancelledWhileWaiting =>
            /\ ENABLED poll_wake("WAIT_OBJECT_0 + 1")
            /\ ~ENABLED WaitTick)
    /\ [][/\ (PollReturns /\ consoleSignaled /\ pollRet'.result = "Ok") =>
                pollRet'.value = "Some(true)"
          /\ (PollReturns /\ ~consoleSignaled /\ semaphore.count = 0
                /\ pollRet'.result = "Ok") =>
                (TimeoutElapsed /\ pollRet'.value = "None")
          /\ (PollReturns /\ CancelledWhileWaiting /\ pollRet'.result = "Ok") =>
                pollRet'.value = "None"
          /\ (CancelStep /\ waitPc = "waiting" /\ semaphore.count = 0) =>
                (semaphore'.count = 1 /\ cancelRet'.result = "Ok")]_vars

(* A poll with no timeout was cancelled before any time passed and returned
   Ok(None) because of the semaphore. *)
C25_Witness ==
    /\ waitPc = "idle"
    /\ pollRet = PollOk("WAIT_OBJECT_0 + 1", "None")
    /\ dw_millis = INFINITE
    /\ ~consoleSignaled
    /\ cancelRet = [result |-> "Ok", released |-> TRUE]

(* C26: the count of the semaphore never exceeds one, and a cancel made while the
   semaphore already holds a release that no wait has consumed leaves the count at
   one and returns an error. *)
C26_OneOutstandingCancel ==
    /\ [](semaphore.count <= 1)
    /\ [][(CancelStep /\ semaphore.some /\ semaphore.count = 1) =>
             /\ semaphore'.count = 1
             /\ cancelRet' = [result |-> "Err", released |-> FALSE]]_vars

(* A second cancel during one wait was refused. *)
C26_Witness ==
    /\ waitPc = "waiting"
    /\ winCalls = [poll |-> 1, cancel |-> 2]
    /\ semaphore = SomeSemaphore(1)
    /\ cancelRet = [result |-> "Err", released |-> FALSE]

(***************************************************************************)
(* The synchronous cursor-position query (cursor/sys/unix.rs:29-43).       *)
(* TerminalInput::read_sync and the reader's next() are not in src/; the   *)
(* reader is modelled from the specification: next() takes the oldest      *)
(* event waiting on the terminal input, or gives None.                     *)
(***************************************************************************)
MaxArrivals == 3

PositionOk(x, y) == [result |-> "Ok", x |-> x, y |-> y]

PositionErr == [result |-> "Err", x |-> 0, y |-> 0]

(* What can arrive on the terminal input: two keys and two position reports. *)
InputEvents ==
    {KeyEv("Char", 97, {}), KeyEv("Up", 0, {}), CursorPositionEv(3, 4), CursorPositionEv(0, 0)}

IsReport(ev) == ev.t = "CursorPosition"

(* The events of a numbered sequence. *)
Events(log) == [i \in 1..Len(log) |-> log[i].ev]

Ids(log) == {log[i].id : i \in 1..Len(log)}

(* The terminal or the user sends an event. *)
Arrive(ev) ==
    /\ arrivals < MaxArrivals
    /\ arrivals' = arrivals + 1
    /\ ttyEvents' = Append(ttyEvents, [id |-> arrivals + 1, ev |-> ev])
    /\ UNCHANGED <<cursorPc, stdoutWrites, positionRet, readLog, delivered>>

(* cursor/sys/unix.rs:31-36 -- write_all and flush of ESC [ 6 n, each with '?',
   then the reader is made. *)
read_position_raw_write(outcome) ==
    /\ cursorPc = "idle"
    /\ stdoutWrites' = IF outcome = "write_err" THEN stdoutWrites ELSE stdoutWrites + 1
    /\ IF outcome = "ok"
       THEN cursorPc' = "reading" /\ UNCHANGED positionRet
       ELSE cursorPc' = "done" /\ positionRet' = PositionErr
    /\ UNCHANGED <<ttyEvents, readLog, delivered, arrivals>>

(* The loop returning the coordinates of whatever event comes first. *)
read_position_raw_next_any_event ==
    /\ cursorPc = "reading"
    /\ ttyEvents # <<>>
    /\ ttyEvents' = Tail(ttyEvents)
    /\ readLog' = Append(readLog, Head(ttyEvents))
    /\ cursorPc' = "done"
    /\ positionRet' = PositionOk(Head(ttyEvents).ev.a, Head(ttyEvents).ev.b)
    /\ UNCHANGED <<stdoutWrites, delivered, arrivals>>

(* cursor/sys/unix.rs:38-42 -- one turn of the loop in which next() gave an event:
   a position report ends the call, any other event is dropped. *)
read_position_raw_next ==
    /\ cursorPc = "reading"
    /\ ttyEvents # <<>>
    /\ ttyEvents' = Tail(ttyEvents)
    /\ readLog' = Append(readLog, Head(ttyEvents))
    /\ IF IsReport(Head(ttyEvents).ev)
       THEN /\ cursorPc' = "done"
            /\ positionRet' = PositionOk(Head(ttyEvents).ev.a, Head(ttyEvents).ev.b)
       ELSE UNCHANGED <<cursorPc, positionRet>>
    /\ UNCHANGED <<stdoutWrites, delivered, arrivals>>

(* After the call, another reader of the terminal input takes the oldest event. *)
LaterRead ==
    /\ cursorPc = "done"
    /\ ttyEvents # <<>>
    /\ ttyEvents' = Tail(ttyEvents)
    /\ delivered' = Append(delivered, Head(ttyEvents))
    /\ UNCHANGED <<cursorPc, stdoutWrites, positionRet, readLog, arrivals>>

InitCursor ==
    /\ UnixAtRest
    /\ CaptureAtStart
    /\ consoleMode = ENABLE_MOUSE_MODE
    /\ keyRecord = NoKeyRecord
    /\ keyResult = NotDecoded
    /\ MouseAtRest
    /\ WinPollAtRest
    /\ CursorAtRest
    /\ LockAtRest
    /\ AsyncAtRest
    /\ RestAtRest

NextCursor ==
    \/ (\E ev \in InputEvents : Arrive(ev))
            /\ UNCHANGED <<unixVars, captureVars, keyVars, mouseVars, winPollVars, lockVars, asyncVars, restVars>>
    \/ (\E outcome \in {"ok", "write_err", "flush_err"} : read_position_raw_write(outcome))
            /\ UNCHANGED <<unixVars, captureVars, keyVars, mouseVars, winPollVars, lockVars, asyncVars, restVars>>
    \/ read_position_raw_next
            /\ UNCHANGED <<unixVars, captureVars, keyVars, mouseVars, winPollVars, lockVars, asyncVars, restVars>>
    \/ LaterRead /\ UNCHANGED <<unixVars, captureVars, keyVars, mouseVars, winPollVars, lockVars, asyncVars, restVars>>

SpecCursor == InitCursor /\ [][NextCursor]_vars

Returned == cursorPc = "done"

(* The call's reader has read some events and the last one is the first report
   among them. *)
ReadUpToFirstReport ==
    /\ readLog # <<>>
    /\ IsReport(readLog[Len(readLog)].ev)
    /\ \A i \in 1..(Len(readLog) - 1) : ~IsReport(readLog[i].ev)

(* Nothing the call's reader has read reaches a later reader. *)
ReadIsGone == Ids(readLog) \cap Ids(delivered) = {}

(* C27 as stated: the call writes the query once, returns only after it has read
   a report, and then with that report's coordinates; what it read before is
   delivered to no later reader. *)
C27_Original ==
    /\ stdoutWrites <= 1
    /\ cursorPc = "reading" => stdoutWrites = 1
    /\ ReadIsGone
    /\ Returned =>
          /\ stdoutWrites = 1
          /\ ReadUpToFirstReport
          /\ positionRet = PositionOk(readLog[Len(readLog)].ev.a, readLog[Len(readLog)].ev.b)

(* C27: the call writes the query at most once and reads nothing before it has
   written it; if the write or the flush fails it returns that error without
   reading; otherwise it returns only when it has read a report, the first one it
   reads, and returns that report's (x, y); the events it read before the report
   are delivered to no later reader. *)
C27_PositionQuery ==
    /\ stdoutWrites <= 1
    /\ cursorPc = "reading" => (stdoutWrites = 1 /\ positionRet = NoPosition)
    /\ readLog # <<>> => stdoutWrites = 1
    /\ ReadIsGone
    /\ (Returned /\ positionRet.result = "Err") => readLog = <<>>
    /\ (Returned /\ positionRet.result # "Err") =>
          /\ ReadUpToFirstReport
          /\ positionRet = PositionOk(readLog[Len(readLog)].ev.a, readLog[Len(readLog)].ev.b)
    /\ (cursorPc = "reading" /\ readLog # <<>>) =>
          \A i \in 1..Len(readLog) : ~IsReport(readLog[i].ev)

(* The call read a key, then the report (3, 4), and returned (3, 4); a later
   reader was then given the key that arrived after the report, not the one
   before it. *)
C27_Witness ==
    /\ Returned
    /\ positionRet = PositionOk(3, 4)
    /\ Events(readLog) = <<KeyEv("Char", 97, {}), CursorPositionEv(3, 4)>>
    /\ Events(delivered) = <<KeyEv("Up", 0, {})>>

(***************************************************************************)
(* Concurrent callers of poll / read.  The Event Queue and its lock are    *)
(* not in src/ and are modelled from the specification: a lock is taken    *)
(* around each try_read call and released when the call returns; read      *)
(* tries again, taking the lock anew, when try_read reports no event; poll *)
(* leaves the event it saw for the next read.  try_read (unix.rs:108-184)  *)
(* is taken at the grain of its accesses to what the threads share: the    *)
(* decoded-event FIFO, the tty and the wake pipe; wake is the action of    *)
(* the event source above (unix.rs:186-192).                               *)
(***************************************************************************)
MaxTyped == 2

(* Every unix variable but the wake pipe. *)
unixVarsButWakePipe ==
    <<parser, tty, ttyHup, signalPending, termSize, pc, timeout, elapsed,
      events, ret, op, queue, opRet, input, fed, before, sigAt, wakeCount>>

(* The threads inside try_read. *)
InTryRead == {c \in Callers : callers[c].pc \in {"enter", "return", "wait"}}

(* The typist types the next byte: 'a', then 'b', ...; each decodes to one event. *)
Typed ==
    /\ typedCount < MaxTyped
    /\ typedCount' = typedCount + 1
    /\ typedBytes' = Append(typedBytes, 97 + typedCount)
    /\ UNCHANGED <<readerLock, callers, readyEvents, received, wakePipe>>

(* A thread calls poll(timeout) or read(): it goes for the lock. *)
reader_call(c, kind, t) ==
    /\ callers[c].pc = "idle"
    /\ callers' = [callers EXCEPT ![c] = [pc |-> "lock", op |-> kind, timeout |-> t, front |-> 0]]
    /\ UNCHANGED <<readerLock, readyEvents, typedBytes, received, typedCount, wakePipe>>

(* Taking the lock whoever holds it. *)
reader_lock_not_exclusive(c) ==
    /\ callers[c].pc = "lock"
    /\ readerLock' = c
    /\ callers' = [callers EXCEPT ![c].pc = "enter"]
    /\ UNCHANGED <<readyEvents, typedBytes, received, typedCount, wakePipe>>

(* The thread gets the lock when it is free, and enters try_read. *)
reader_lock(c) ==
    /\ callers[c].pc = "lock"
    /\ readerLock = 0
    /\ readerLock' = c
    /\ callers' = [callers EXCEPT ![c].pc = "enter"]
    /\ UNCHANGED <<readyEvents, typedBytes, received, typedCount, wakePipe>>

(* unix.rs:109 -- self.parser.next(): look at the front of the FIFO; with
   nothing there, go on to the wait (unix.rs:117). *)
reader_try_read_next(c) ==
    /\ callers[c].pc = "enter"
    /\ IF readyEvents # <<>>
       THEN callers' = [callers EXCEPT ![c].pc = "return", ![c].front = Head(readyEvents)]
       ELSE callers' = [callers EXCEPT ![c].pc = "wait"]
    /\ UNCHANGED <<readerLock, readyEvents, typedBytes, received, typedCount, wakePipe>>

(* unix.rs:110 -- return Ok(Some(event)): the front is taken off the FIFO and the
   lock released; read gives the event to its caller, poll puts it back for the
   next read and reports true. *)
reader_try_read_return(c) ==
    /\ callers[c].pc = "return"
    /\ IF callers[c].op = "read"
       THEN /\ readyEvents' = IF readyEvents = <<>> THEN <<>> ELSE Tail(readyEvents)
            /\ received' = [received EXCEPT ![c] = Append(@, callers[c].front)]
       ELSE UNCHANGED <<readyEvents, received>>
    /\ readerLock' = IF readerLock = c THEN 0 ELSE readerLock
    /\ callers' = [callers EXCEPT ![c] = IdleCaller]
    /\ UNCHANGED <<typedBytes, typedCount, wakePipe>>

(* unix.rs:126-146 -- the wait reports the tty: up to TTY_BUFFER_SIZE bytes are
   read and decoded into the FIFO, and the FIFO is looked at again. *)
reader_try_read_tty(c) ==
    /\ callers[c].pc = "wait"
    /\ typedBytes # <<>>
    /\ LET n == Min(Len(typedBytes), TTY_BUFFER_SIZE)
       IN  /\ readyEvents' = readyEvents \o SubSeq(typedBytes, 1, n)
           /\ typedBytes' = SubSeq(typedBytes, n + 1, Len(typedBytes))
    /\ callers' = [callers EXCEPT ![c].pc = "enter"]
    /\ UNCHANGED <<readerLock, received, typedCount, wakePipe>>

(* try_read returned Ok(None): poll reports false; read goes for the lock again. *)
NoEvent(c) ==
    IF callers[c].op = "read"
    THEN [callers EXCEPT ![c].pc = "lock"]
    ELSE [callers EXCEPT ![c] = IdleCaller]

(* unix.rs:167-174 -- the wait reports the wake pipe: one byte is read and
   try_read returns Ok(None); the lock is released. *)
reader_try_read_wake(c) ==
    /\ callers[c].pc = "wait"
    /\ wakePipe > 0
    /\ wakePipe' = wakePipe - 1
    /\ readerLock' = IF readerLock = c THEN 0 ELSE readerLock
    /\ callers' = NoEvent(c)
    /\ UNCHANGED <<readyEvents, typedBytes, received, typedCount>>

(* unix.rs:119-122 -- the wait ends with nothing ready: the timeout has passed. *)
reader_try_read_timeout(c) ==
    /\ callers[c].pc = "wait"
    /\ callers[c].timeout.some
    /\ typedBytes = <<>>
    /\ wakePipe = 0
    /\ readerLock' = IF readerLock = c THEN 0 ELSE readerLock
    /\ callers' = NoEvent(c)
    /\ UNCHANGED <<readyEvents, typedBytes, received, typedCount, wakePipe>>

ReaderStep(c) ==
    \/ reader_lock(c)
    \/ reader_try_read_next(c)
    \/ reader_try_read_return(c)
    \/ reader_try_read_tty(c)
    \/ reader_try_read_wake(c)
    \/ reader_try_read_timeout(c)

(* What a step of the threads leaves alone. *)
LockFrame ==
    UNCHANGED <<unixVarsButWakePipe, captureVars, keyVars, mouseVars, winPollVars,
                cursorVars, asyncVars, restVars>>

InitLock ==
    /\ UnixAtRest
    /\ WindowsAtRest

NextLock ==
    \/ Typed /\ LockFrame
    \/ (\E c \in Callers :
          \E call \in {<<"poll", NoTimeout>>, <<"poll", SomeTimeout(0)>>, <<"read", NoTimeout>>} :
             reader_call(c, call[1], call[2])) /\ LockFrame
    \/ (\E c \in Callers : reader_lock(c)) /\ LockFrame
    \/ (\E c \in Callers : reader_try_read_next(c)) /\ LockFrame
    \/ (\E c \in Callers : reader_try_read_return(c)) /\ LockFrame
    \/ (\E c \in Callers : reader_try_read_tty(c)) /\ LockFrame
    \/ (\E c \in Callers : reader_try_read_wake(c)) /\ LockFrame
    \/ (\E c \in Callers : reader_try_read_timeout(c)) /\ LockFrame
    \/ wake /\ UNCHANGED <<historyVars, nonUnixVars>>

SpecLock == InitLock /\ [][NextLock]_vars

Range(seq) == {seq[i] : i \in 1..Len(seq)}

(* C28: at most one thread is inside try_read, and it is the one that holds the
   lock; a thread enters try_read only when no other thread is inside; and no event
   is given to two callers, or twice to one. *)
C28_OneReaderAtATime ==
    /\ [](/\ Cardinality(InTryRead) <= 1
          /\ \A c \in InTryRead : readerLock = c
          /\ Range(received[1]) \cap Range(received[2]) = {}
          /\ \A c \in Callers : Cardinality(Range(received[c])) = Len(received[c]))
    /\ [][\A c \in Callers :
             (callers[c].pc = "lock" /\ callers'[c].pc = "enter") => InTryRead = {}]_vars

(* Thread 2 waits for the lock while thread 1 is blocked inside try_read, after
   thread 1 was given the first event and before anyone was given the second. *)
C28_Witness ==
    /\ callers[1].pc = "wait"
    /\ callers[2].pc = "lock"
    /\ readerLock = 1
    /\ received[1] = <<97>>
    /\ received[2] = <<>>

(* A thread is blocked inside try_read with nothing to read. *)
Blocked(c) == callers[c].pc = "wait" /\ typedBytes = <<>> /\ wakePipe = 0

(* C29: while a thread is blocked inside try_read holding the lock, wake() can
   run; once the wake byte is in the pipe the blocked thread can return, and its
   return releases the lock; and whenever no thread can take a step, either every
   thread is idle or the lock holder is blocked inside try_read, where a wake()
   gets it out, and every other thread in a call is waiting for that lock. *)
C29_WakeNeedsNoLock ==
    /\ [](\A c \in Callers :
            /\ (callers[c].pc = "wait" /\ readerLock = c) => ENABLED wake
            /\ (callers[c].pc = "wait" /\ wakePipe > 0) => ENABLED reader_try_read_wake(c)
            /\ (callers[c].pc = "lock" /\ readerLock = 0) => ENABLED reader_lock(c)
            /\ readerLock = c => c \in InTryRead)
    /\ []((\A c \in Callers : ~ENABLED ReaderStep(c)) =>
            /\ \A c \in Callers : callers[c].pc \in {"idle", "lock"} \/ Blocked(c)
            /\ (\E c \in Callers : callers[c].pc = "lock") =>
                   (\E h \in Callers : readerLock = h /\ Blocked(h) /\ ENABLED wake))
    /\ [][\A c \in Callers :
             (callers[c].pc = "wait" /\ callers'[c].pc # "wait" /\ wakePipe' < wakePipe) =>
                 (readerLock = c /\ readerLock' = 0)]_vars

(* Thread 1 was blocked in poll with no timeout holding the lock, thread 2 was
   waiting for the lock; a wake was made, thread 1 returned and thread 2 is now
   inside try_read. *)
C29_Witness ==
    /\ callers[1] = IdleCaller
    /\ callers[2].pc = "wait"
    /\ readerLock = 2
    /\ wakePipe = 0
    /\ typedCount = 0

(***************************************************************************)
(* read_until_async: a background thread reads the input and sends it over *)
(* a channel until it meets the delimiter.                                 *)
(*   "unix"           modules/input/unix_input.rs:44-66                    *)
(*   "windows"        modules/input/windows_input.rs:118-146               *)
(*   "windows_crate"  crossterm_input/src/input/windows_input.rs:112-161   *)
(***************************************************************************)
MaxAsyncInput == 3

AsyncImpls == {"unix", "windows", "windows_crate"}

(* 'a', 'x', '\r' and 0xE0, the prefix _getwch gives for a function or arrow key. *)
AsyncBytes == {97, 120, 13, 224}

Delimiters == {13, 120}

AsyncInputs == UNION {[1..n -> AsyncBytes] : n \in 1..MaxAsyncInput}

(* unix_input.rs:47-63 -- one turn of 'for i in get_tty().unwrap().bytes()' with
   Ok(byte): send it, then stop if it is the delimiter. *)
unix_read_until_async ==
    /\ asyncImpl = "unix"
    /\ asyncThread = "running"
    /\ asyncRest # <<>>
    /\ LET byte == Head(asyncRest)
           end_of_stream == byte = delimiter
       IN  /\ channel' = Append(channel, byte)
           /\ asyncThread' = IF end_of_stream THEN "stopped" ELSE "running"
    /\ asyncRest' = Tail(asyncRest)
    /\ UNCHANGED <<asyncImpl, delimiter, asyncTyped, asyncGot, asyncFailed>>

(* unix_input.rs:58-60 -- Err(_) => return; and the panic of '.unwrap()' on
   into_virtual_terminal_sequence() (crossterm_input windows_input.rs:147). *)
read_until_async_failed ==
    /\ asyncImpl \in {"unix", "windows_crate"}
    /\ asyncThread = "running"
    /\ asyncThread' = "stopped"
    /\ asyncFailed' = TRUE
    /\ UNCHANGED <<asyncImpl, delimiter, asyncTyped, asyncRest, channel, asyncGot>>

(* modules/input/windows_input.rs:124-142 -- one turn of the loop: _getwch() as u8;
   return on 0, 0xE0 or the delimiter; otherwise send. *)
windows_read_until_async ==
    /\ asyncImpl = "windows"
    /\ asyncThread = "running"
    /\ asyncRest # <<>>
    /\ LET pressed_char == AsU8(Head(asyncRest))
           end_of_stream == pressed_char = delimiter
       IN  IF pressed_char = 0 \/ pressed_char = 224 \/ end_of_stream
           THEN asyncThread' = "stopped" /\ UNCHANGED channel
           ELSE channel' = Append(channel, pressed_char) /\ UNCHANGED asyncThread
    /\ asyncRest' = Tail(asyncRest)
    /\ UNCHANGED <<asyncImpl, delimiter, asyncTyped, asyncGot, asyncFailed>>

(* crossterm_input windows_input.rs:147-155 with 209-250 -- one turn of the loop:
   ReadConsoleInputW gives the n records that are waiting, vts ends as the bytes of
   the last of them (each record assigns vts anew), and those are sent up to the
   delimiter, at which the thread returns. *)
windows_crate_read_until_async(n) ==
    /\ asyncImpl = "windows_crate"
    /\ asyncThread = "running"
    /\ n \in 1..Len(asyncRest)
    /\ LET vts == <<asyncRest[n]>>
           i   == vts[1]
       IN  IF i = delimiter
           THEN asyncThread' = "stopped" /\ UNCHANGED channel
           ELSE channel' = Append(channel, i) /\ UNCHANGED asyncThread
    /\ asyncRest' = SubSeq(asyncRest, n + 1, Len(asyncRest))
    /\ UNCHANGED <<asyncImpl, delimiter, asyncTyped, asyncGot, asyncFailed>>

(* crossterm_input mod.rs:107-126 -- AsyncReader::read: try_recv takes the oldest
   byte off the channel. *)
async_reader_read ==
    /\ channel # <<>>
    /\ asyncGot' = Append(asyncGot, Head(channel))
    /\ channel' = Tail(channel)
    /\ UNCHANGED <<asyncImpl, delimiter, asyncTyped, asyncRest, asyncThread, asyncFailed>>

AsyncFrame ==
    UNCHANGED <<unixVars, captureVars, keyVars, mouseVars, winPollVars, cursorVars, lockVars,
                restVars>>

InitAsync ==
    /\ UnixAtRest
    /\ CaptureAtStart
    /\ consoleMode = ENABLE_MOUSE_MODE
    /\ keyRecord = NoKeyRecord
    /\ keyResult = NotDecoded
    /\ MouseAtRest
    /\ WinPollAtRest
    /\ CursorAtRest
    /\ LockAtRest
    /\ asyncImpl \in AsyncImpls
    /\ delimiter \in Delimiters
    /\ asyncTyped \in AsyncInputs
    /\ asyncRest = asyncTyped
    /\ channel = <<>>
    /\ asyncGot = <<>>
    /\ asyncThread = "running"
    /\ asyncFailed = FALSE
    /\ RestAtRest

NextAsync ==
    \/ unix_read_until_async /\ AsyncFrame
    \/ read_until_async_failed /\ AsyncFrame
    \/ windows_read_until_async /\ AsyncFrame
    \/ (\E n \in 1..MaxAsyncInput : windows_crate_read_until_async(n)) /\ AsyncFrame
    \/ async_reader_read /\ AsyncFrame

SpecAsync == InitAsync /\ [][NextAsync]_vars

IsPrefix(a, b) == Len(a) <= Len(b) /\ SubSeq(b, 1, Len(a)) = a

(* seq up to and including the first d, or all of seq when d is not in it. *)
UpTo(seq, d) ==
    IF \E i \in 1..Len(seq) : seq[i] = d
    THEN SubSeq(seq, 1, CHOOSE i \in 1..Len(seq) :
                            seq[i] = d /\ \A j \in 1..(i - 1) : seq[j] # d)
    ELSE seq

(* What the thread has read so far. *)
AsyncConsumed == SubSeq(asyncTyped, 1, Len(asyncTyped) - Len(asyncRest))

(* C30 as stated, for each implementation: what the reader is given, and what is
   on its way to it, is a prefix of the input up to and including the first
   delimiter, so nothing after the delimiter is delivered and the order is kept;
   the thread has stopped once it has read the delimiter; and when the thread
   has stopped without a failure of the input and the channel is drained, the
   reader has been given all of the input up to and including the delimiter. *)
C30_ReadUntilDelimiter ==
    /\ IsPrefix(asyncGot \o channel, UpTo(asyncTyped, delimiter))
    /\ (\E i \in 1..Len(AsyncConsumed) : AsyncConsumed[i] = delimiter) =>
           asyncThread = "stopped"
    /\ (asyncThread = "stopped" /\ ~asyncFailed /\ channel = <<>>) =>
           asyncGot = UpTo(asyncTyped, delimiter)

(* On Windows, 'a' and Enter were typed with Enter as the delimiter; the thread
   has stopped, and the reader was given 'a' only. *)
C30_Witness ==
    /\ asyncImpl = "windows"
    /\ delimiter = 13
    /\ asyncTyped = <<97, 13>>
    /\ asyncThread = "stopped"
    /\ channel = <<>>
    /\ asyncGot = <<97>>

(***************************************************************************)
(* AsyncReader::read (crossterm_input/src/input/mod.rs:101-127) and the     *)
(* thread of read_async that feeds its channel                             *)
(* (modules/input/unix_input.rs:30-42).                                    *)
(***************************************************************************)
MaxSent == 3

ReadBytes == {97, 98}

(* io::Result<u8> *)
OkByte(value) == [ok |-> TRUE, value |-> value]

ErrItem == [ok |-> FALSE, value |-> 0]

Items == {OkByte(b) : b \in ReadBytes} \cup {ErrItem}

(* Lengths of the buffers the caller passes to read. *)
BufLens == {0, 1, 2}

ReadOk(total) == [result |-> "ok", total |-> total]

ReadErr == [result |-> "err", total |-> 0]

(* The Ok bytes of a sequence of items, in order. *)
RECURSIVE OkBytes(_)
OkBytes(items) ==
    IF items = <<>> THEN <<>>
    ELSE IF Head(items).ok THEN <<Head(items).value>> \o OkBytes(Tail(items))
    ELSE OkBytes(Tail(items))

(* unix_input.rs:33-39 -- one turn of 'for i in get_tty().unwrap().bytes()':
   send.send(i) queues the io::Result<u8> as it is, an Err included, and the
   loop goes on after it. *)
read_async_send(i) ==
    /\ Len(sentLog) < MaxSent
    /\ recv' = Append(recv, i)
    /\ sentLog' = Append(sentLog, i)
    /\ UNCHANGED <<readBuf, readRet, reported>>

(* mod.rs:110-125 -- the loop of read, from the state (channel, buffer, total):
   break when the buffer is full; try_recv: Ok(Ok(value)) is stored at
   buf[total], Ok(Err(e)) returns Err(e) at once, Err(_) (nothing queued, or
   the sender is gone) breaks. *)
RECURSIVE read_loop(_, _, _)
read_loop(channel_items, buffer, total) ==
    IF total >= Len(buffer)
    THEN [ret |-> ReadOk(total), buf |-> buffer, recv |-> channel_items]
    ELSE IF channel_items = <<>>
    THEN [ret |-> ReadOk(total), buf |-> buffer, recv |-> channel_items]
    ELSE IF Head(channel_items).ok
    THEN read_loop(Tail(channel_items),
                   [buffer EXCEPT ![total + 1] = Head(channel_items).value],
                   total + 1)
    ELSE [ret |-> ReadErr, buf |-> buffer, recv |-> Tail(channel_items)]

(* mod.rs:107-126 -- AsyncReader::read(buf) with a zeroed buffer of length len.
   The caller learns of buf[..total] from Ok(total), and of nothing from Err. *)
AsyncReader_read(len) ==
    LET out == read_loop(recv, [k \in 1..len |-> 0], 0)
    IN  /\ recv' = out.recv
        /\ readBuf' = out.buf
        /\ readRet' = out.ret
        /\ reported' = IF out.ret.result = "ok"
                       THEN reported \o SubSeq(out.buf, 1, out.ret.total)
                       ELSE reported
        /\ UNCHANGED sentLog

ReadFrame ==
    UNCHANGED <<unixVars, captureVars, keyVars, mouseVars, winPollVars, cursorVars,
                lockVars, asyncVars, batchVars, millisVars, rawVars>>

InitRead == UnixAtRest /\ WindowsAtRest

NextRead ==
    \/ (\E i \in Items : read_async_send(i)) /\ ReadFrame
    \/ (\E len \in BufLens : AsyncReader_read(len)) /\ ReadFrame

SpecRead == InitRead /\ [][NextRead]_vars

ReadStep == readRet' # readRet \/ recv' # recv \/ readBuf' # readBuf

(* What one call copies: the longest run of bytes at the front of the channel
   that fits into the buffer. *)
RECURSIVE FrontBytes(_, _)
FrontBytes(items, room) ==
    IF room = 0 \/ items = <<>> \/ ~Head(items).ok THEN <<>>
    ELSE <<Head(items).value>> \o FrontBytes(Tail(items), room - 1)

(* C31 as stated: read can be called whatever the channel holds and returns
   without waiting; a call that returns Ok(total) has copied the first total
   queued bytes into buf in channel order and has stopped because buf was
   full or the channel was empty; and at every moment the bytes reported to
   the caller so far, followed by the bytes still queued, are exactly the
   bytes the thread has sent, in order, so each sent byte is reported once,
   also when an error item lies between bytes. *)
C31_ReadReportsEveryByte ==
    /\ [](\A len \in BufLens : ENABLED AsyncReader_read(len))
    /\ [][(ReadStep /\ sentLog' = sentLog /\ readRet'.result = "ok") =>
             /\ readRet'.total = Len(FrontBytes(recv, Len(readBuf')))
             /\ SubSeq(readBuf', 1, readRet'.total) = FrontBytes(recv, Len(readBuf'))
             /\ readRet'.total = Len(readBuf') \/ recv' = <<>>]_vars
    /\ [](reported \o OkBytes(recv) = OkBytes(sentLog))

(* The thread sent 'a' and then an error; one read with room for two bytes
   stored 'a' in the buffer and returned the error, so 'a' is gone from the
   channel and was never reported. *)
C31_Witness ==
    /\ sentLog = <<OkByte(97), ErrItem>>
    /\ recv = <<>>
    /\ readBuf = <<97, 0>>
    /\ readRet = ReadErr
    /\ reported = <<>>

(***************************************************************************)
(* The decoded-event FIFO and the chunks read from the tty                 *)
(* (unix.rs:108-146 and the comment of Parser::default, 216-225).          *)
(***************************************************************************)
(* A step of try_read that handles TTY_TOKEN: the read of the tty and what
   follows it in that arm. *)
TtyReadStep ==
    /\ pc = "dispatch"
    /\ events # <<>>
    /\ Head(events) = TTY_TOKEN
    /\ TryReadStep

(* C32: the tty is read only while the FIFO is empty, and what the FIFO holds
   after the read was decoded from that one chunk, so it holds no more events
   than the chunk had bytes; no other step makes the FIFO longer.  Hence the
   FIFO never holds events of two chunks and is never longer than a chunk. *)
C32_OneChunkInFifo ==
    /\ [](Len(Fifo) <= TTY_BUFFER_SIZE)
    /\ [][/\ TtyReadStep => (Fifo = <<>> /\ Len(Fifo') <= Len(TtyChunk))
          /\ ~TtyReadStep => Len(Fifo') <= Len(Fifo)]_vars

(* A call begins while the FIFO still holds an event of the last chunk and
   the tty has the next bytes waiting. *)
C32_Witness ==
    /\ pc = "enter"
    /\ Fifo # <<>>
    /\ tty # <<>>

(***************************************************************************)
(* The legacy Windows reader: into_virtual_terminal_sequence and its       *)
(* encoders (crossterm_input/src/input/windows_input.rs:209-492).          *)
(***************************************************************************)
MaxBatch == 3

(* INPUT_RECORD, with the fields of the KEY_EVENT_RECORD and MOUSE_EVENT_RECORD
   members of its union side by side. *)
InputRecord(EventType, bKeyDown, wVirtualKeyCode, UnicodeChar, dwControlKeyState, dwEventFlags, dwButtonState, X, Y) ==
    [EventType |-> EventType, bKeyDown |-> bKeyDown,
     wVirtualKeyCode |-> wVirtualKeyCode, UnicodeChar |-> UnicodeChar,
     dwControlKeyState |-> dwControlKeyState, dwEventFlags |-> dwEventFlags,
     dwButtonState |-> dwButtonState, X |-> X, Y |-> Y]

KeyInput(bKeyDown, wVirtualKeyCode, UnicodeChar, dwControlKeyState) ==
    InputRecord("KEY_EVENT", bKeyDown, wVirtualKeyCode, UnicodeChar,
                dwControlKeyState, 0, 0, 0, 0)

MouseInputRecord(dwEventFlags, dwButtonState, X, Y) ==
    InputRecord("MOUSE_EVENT", 0, 0, 0, 0, dwEventFlags, dwButtonState, X, Y)

(* 'a' down and up, Left down, Ctrl+C down, a left click at column 260, a mouse
   move, and a window-buffer-size record. *)
BatchRecords ==
    {KeyInput(1, 65, 97, 0), KeyInput(0, 65, 97, 0), KeyInput(1, 37, 0, 0),
     KeyInput(1, 67, 3, 8), MouseInputRecord(0, 1, 260, 2),
     MouseInputRecord(1, 0, 5, 5),
     InputRecord("WINDOW_BUFFER_SIZE_EVENT", 0, 0, 0, 0, 0, 0, 0, 0)}

Batches == UNION {[1..n -> BatchRecords] : n \in 1..MaxBatch}

(* (x as u16).to_ne_bytes() on the little-endian machines Windows runs on. *)
to_ne_bytes(x) == <<x % 256, (x \div 256) % 256>>

RECURSIVE MapBytes(_, _)
(* 'for ch in chars.iter()' of the Ctrl arm (351-358): letters 0x01..0x1A are
   kept, any other byte becomes 0. *)
MapBytes(chars, keep) ==
    IF chars = <<>> THEN <<>>
    ELSE <<IF Head(chars) \in keep THEN Head(chars) ELSE 0>> \o MapBytes(Tail(chars), keep)

(* windows_input.rs:252-394 *)
legacy_handle_key_event(e) ==
    LET virtual_key == e.wVirtualKeyCode
        chars == to_ne_bytes(e.UnicodeChar)
        state == e.dwControlKeyState
    IN  IF virtual_key \in {16, 17, 18} THEN <<0>>
        ELSE IF virtual_key = 8 THEN <<127>>
        ELSE IF virtual_key = 27 THEN <<27>>
        ELSE IF virtual_key = 13 THEN <<10>>
        ELSE IF virtual_key \in 112..115
        THEN <<27, 79, <<80, 81, 82, 83>>[virtual_key - 112 + 1]>>
        ELSE IF virtual_key \in 116..119
        THEN <<27, 91, 49, <<53, 55, 56, 57>>[virtual_key - 116 + 1], 126>>
        ELSE IF virtual_key \in 120..123
        THEN <<27, 91, 50, <<48, 49, 51, 52>>[virtual_key - 120 + 1], 126>>
        ELSE IF virtual_key \in 37..40
        THEN <<27, 91, <<68, 65, 67, 66>>[virtual_key - 37 + 1]>>
        ELSE IF virtual_key \in 33..34
        THEN <<27, 91, <<53, 54>>[virtual_key - 33 + 1], 126>>
        ELSE IF virtual_key \in 35..36
        THEN <<27, 91, <<70, 72>>[virtual_key - 35 + 1]>>
        ELSE IF virtual_key \in 45..46
        THEN <<27, 91, <<50, 51>>[virtual_key - 45 + 1], 126>>
        ELSE IF state \in {2, 257, 1} THEN <<27>> \o chars
        ELSE IF state \in {8, 260, 4} THEN MapBytes(chars, 1..26)
        ELSE IF state \in {10, 261, 5} THEN <<0>>
        ELSE IF state \in {26, 277, 21} THEN <<0>>
        ELSE IF state = 0 THEN chars
        ELSE IF state = 16 THEN chars
        ELSE <<0>>

(* windows_input.rs:396-492; dwButtonState is a DWORD, so 'button >= 0' (467)
   holds for every record. *)
legacy_handle_mouse_event(e) ==
    LET button == e.dwButtonState
        movemt == e.dwEventFlags
        cx == AsU8(e.X)
        cy == AsU8(e.Y)
    IN  IF movemt = 0
        THEN IF button = 0 THEN <<27, 91, 77, 3 + 32, cx, cy>>
             ELSE IF button = 1 THEN <<27, 91, 77, 0 + 32, cx, cy>>
             ELSE IF button = 2 THEN <<27, 91, 77, 2 + 32, cx, cy>>
             ELSE IF button = 4 THEN <<27, 91, 77, 1 + 32, cx, cy>>
             ELSE <<>>
        ELSE IF movemt = 4 THEN <<27, 91, 77, 0, cx, cy>>
        ELSE <<>>

(* windows_input.rs:221-249 -- the loop over the records, from the value vts
   has so far: a key-down or mouse record assigns vts; a key-up record and the
   other record types leave it as it is. *)
RECURSIVE vts_loop(_, _)
vts_loop(records, vts) ==
    IF records = <<>> THEN vts
    ELSE LET record == Head(records)
         IN  IF record.EventType = "KEY_EVENT"
             THEN IF record.bKeyDown = 0
                  THEN vts_loop(Tail(records), vts)
                  ELSE vts_loop(Tail(records), legacy_handle_key_event(record))
             ELSE IF record.EventType = "MOUSE_EVENT"
             THEN vts_loop(Tail(records), legacy_handle_mouse_event(record))
             ELSE vts_loop(Tail(records), vts)

(* windows_input.rs:209-250 -- ReadConsoleInputW returns the waiting records (at
   least one), or fails. *)
into_virtual_terminal_sequence(records, res) ==
    /\ inputBatch' = records
    /\ vtsRet' = IF res = 0
                 THEN [result |-> "err", vts |-> <<>>]
                 ELSE [result |-> "ok", vts |-> vts_loop(records, <<>>)]

BatchFrame ==
    UNCHANGED <<unixVars, captureVars, keyVars, mouseVars, winPollVars, cursorVars,
                lockVars, asyncVars, readVars, millisVars, rawVars>>

InitBatch == UnixAtRest /\ WindowsAtRest

(* The function keeps no state between calls, so one call per run shows all it
   can do. *)
NextBatch ==
    /\ vtsRet = NoVts
    /\ \E records \in Batches, res \in {0, 1} :
            into_virtual_terminal_sequence(records, res)
    /\ BatchFrame

SpecBatch == InitBatch /\ [][NextBatch]_vars

(* The encodings of the key-down and mouse records of a batch, one after the
   other in record order. *)
RECURSIVE AllEncodings(_)
AllEncodings(records) ==
    IF records = <<>> THEN <<>>
    ELSE LET record == Head(records)
             enc == IF record.EventType = "KEY_EVENT" /\ record.bKeyDown # 0
                    THEN legacy_handle_key_event(record)
                    ELSE IF record.EventType = "MOUSE_EVENT"
                    THEN legacy_handle_mouse_event(record)
                    ELSE <<>>
         IN  enc \o AllEncodings(Tail(records))

(* C33 as stated: the output for a batch is the encodings of all its key-down
   and mouse records, in record order. *)
C33_BatchKeepsEveryRecord ==
    vtsRet.result = "ok" => vtsRet.vts = AllEncodings(inputBatch)

(* 'a' was pressed and released and Left was pressed, all in one batch: the
   output is Left's sequence alone. *)
C33_Witness ==
    /\ inputBatch = <<KeyInput(1, 65, 97, 0), KeyInput(0, 65, 97, 0), KeyInput(1, 37, 0, 0)>>
    /\ vtsRet = [result |-> "ok", vts |-> <<27, 91, 68>>]

(***************************************************************************)
(* SpecStale: the event source with wake() called only between calls, so   *)
(* that every byte in the wake pipe was written while no try_read was      *)
(* waiting.                                                                *)
(***************************************************************************)
wake_between_calls == pc = "idle" /\ wake

NextStale ==
    \/ (\E b \in TtyBytes : TtyInput(b)) /\ UNCHANGED <<historyVars, nonUnixVars>>
    \/ TtyHangup /\ UNCHANGED <<historyVars, nonUnixVars>>
    \/ (\E sz \in Sizes : WindowResize(sz)) /\ UNCHANGED <<historyVars, nonUnixVars>>
    \/ Tick /\ UNCHANGED <<historyVars, nonUnixVars>>
    \/ wake_between_calls /\ UNCHANGED <<historyVars, nonUnixVars>>
    \/ (\E t \in Timeouts : poll(t)) /\ UNCHANGED <<historyVars, nonUnixVars>>
    \/ read /\ UNCHANGED <<historyVars, nonUnixVars>>
    \/ try_read_enter /\ UNCHANGED <<historyVars, nonUnixVars>>
    \/ try_read_poll_err /\ UNCHANGED <<historyVars, nonUnixVars>>
    \/ try_read_poll_ready /\ UNCHANGED <<historyVars, nonUnixVars>>
    \/ try_read_poll_timeout /\ UNCHANGED <<historyVars, nonUnixVars>>
    \/ try_read_tty /\ UNCHANGED <<historyVars, nonUnixVars>>
    \/ try_read_signal /\ UNCHANGED <<historyVars, nonUnixVars>>
    \/ try_read_wake /\ UNCHANGED <<historyVars, nonUnixVars>>
    \/ try_read_loop_end /\ UNCHANGED <<historyVars, nonUnixVars>>

SpecStale == Init /\ [][NextStale]_vars

(* try_read returns from the multiplexer wait or from the token loop while a
   wake byte written before the call is in the pipe. *)
ReturnWithStaleToken ==
    /\ pc \in {"poll", "dispatch"}
    /\ wakePipe > 0
    /\ pc' \in {"idle", "enter"}

(* C34 as stated: such a call returns Ok(None). *)
C34_Original == [][ReturnWithStaleToken => ret'.kind = "none"]_vars

(* C34: a wake byte leaves the pipe only in a call that returns Ok(None) for it,
   so a token no call has handled stays; a call that reaches the wait with a
   token in the pipe does not wait for its timeout; it returns Ok(None) for
   the token when the token is handled first, and otherwise returns the event
   or the error of what was ready as well and handled before it, and then the
   token is still in the pipe. *)
C34_StaleWakeToken ==
    /\ [][wakePipe' < wakePipe =>
             (pc = "dispatch" /\ ret' = OkNone("wake") /\ wakePipe' = wakePipe - 1)]_vars
    /\ []((pc = "poll" /\ wakePipe > 0) => ~ENABLED try_read_poll_timeout)
    /\ [](pc = "dispatch" => (wakePipe > 0 <=> \E i \in 1..Len(events) : events[i] = WAKE_TOKEN))
    /\ [][ReturnWithStaleToken =>
             \/ ret' = OkNone("wake") /\ pc = "dispatch" /\ Head(events) = WAKE_TOKEN
             \/ /\ ret'.kind \in {"event", "err"}
                /\ ret'.why \in {"poll", "tty", "tty_read", "tty_poll", "signal", "size"}
                /\ wakePipe' = wakePipe]_vars

(* wake() was called once, before the call; the call found the FIFO empty, the
   wait gave the wake token alone, and read() got Ok(None) and tries again
   with the pipe empty. *)
C34_Witness ==
    /\ op = "read"
    /\ pc = "enter"
    /\ ret = OkNone("wake")
    /\ wakePipe = 0
    /\ Fifo = <<>>
    /\ tty = <<>>

(***************************************************************************)
(* Pending bytes across the returns of try_read that carry no decoded      *)
(* event (unix.rs:116-183, 231-253).                                       *)
(***************************************************************************)
(* try_read returns Ok(None), by timeout or by wake, or returns a Resize. *)
QuietReturn ==
    /\ pc \in {"poll", "dispatch"}
    /\ pc' \in {"idle", "enter"}
    /\ \/ ret'.kind = "none"
       \/ ret'.kind = "event" /\ ret'.why = "signal"

(* C35: a return of try_read with Ok(None) or with a Resize leaves the parser,
   its pending bytes included, as it is; the pending bytes change only when a
   chunk read from the tty is passed to advance; and advancing a parser that
   holds pending bytes by a chunk gives what a fresh parser gives for the
   pending bytes and the chunk in one piece, so the call returns the event the
   whole sequence decodes to. *)
C35_PendingBytesSurviveReturn ==
    /\ [][QuietReturn => parser' = parser]_vars
    /\ [][parser'.buffer # parser.buffer => AdvanceStep]_vars
    /\ [][(AdvanceStep /\ parser.buffer # <<>>) =>
             LET whole == advance(ParserDefault, parser.buffer \o TtyChunk, MoreAfterRead)
             IN  /\ advance(parser, TtyChunk, MoreAfterRead) = whole
                 /\ parser'.buffer = whole.buffer
                 /\ IF whole.internal_events # <<>>
                    THEN ret' = OkSome(Head(whole.internal_events), "tty")
                    ELSE pc' = "dispatch"]_vars

(* read()'s try_read has just returned Ok(None) by a wake while Esc [ was
   pending; the bytes are still there when read() calls try_read again. *)
C35_Witness ==
    /\ op = "read"
    /\ pc = "enter"
    /\ ret = OkNone("wake")
    /\ parser.buffer = <<Byte.ESC, Byte.LBRACKET>>

(***************************************************************************)
(* The semaphore slot of WinApiPoll between calls (windows.rs:267-314).    *)
(***************************************************************************)
(* C36 as stated: whenever no poll is in progress the semaphore slot is empty,
   and a cancel made then releases nothing. *)
C36_NoSemaphoreAfterPoll ==
    /\ [](waitPc = "idle" => ~semaphore.some)
    /\ [][(CancelStep /\ waitPc = "idle") => ~cancelRet'.released]_vars

(* A poll has returned the error of a failed wait; its semaphore is still in
   the slot, and a cancel made now releases it. *)
C36_Witness ==
    /\ waitPc = "idle"
    /\ pollRet = PollErr("WAIT_FAILED")
    /\ semaphore = SomeSemaphore(0)
    /\ ENABLED (cancel /\ cancelRet'.released)

(* C37: a cancel made while the slot is empty returns Ok, releases nothing and
   changes nothing of the poll; a poll that then reaches the wait registers a
   fresh semaphore with count 0; and a wait whose semaphore has count 0 cannot
   end because of the semaphore: without console input it lasts until its
   timeout (or fails). *)
C37_CancelNotRemembered ==
    /\ [][(CancelStep /\ ~semaphore.some) =>
             /\ cancelRet' = [result |-> "Ok", released |-> FALSE]
             /\ UNCHANGED <<semaphore, consoleSignaled, waitPc, dw_millis, waited, pollRet>>]_vars
    /\ [][(waitPc = "idle" /\ waitPc' = "waiting") =>
             semaphore' = SomeSemaphore(SemaphoreInitial)]_vars
    /\ []((waitPc = "waiting" /\ semaphore.count = 0) =>
             /\ ~ENABLED poll_wake("WAIT_OBJECT_0 + 1")
             /\ (~consoleSignaled /\ ~TimeoutElapsed) => WaitOutputs = {"WAIT_FAILED"})

(* cancel was called once, before the only poll, and did nothing; the poll now
   waits without a timeout on a semaphore nobody has released. *)
C37_Witness ==
    /\ winCalls = [poll |-> 1, cancel |-> 1]
    /\ cancelRet = [result |-> "Ok", released |-> FALSE]
    /\ waitPc = "waiting"
    /\ semaphore = SomeSemaphore(0)
    /\ dw_millis = INFINITE
    /\ ~consoleSignaled

(***************************************************************************)
(* The wait bound of WinApiPoll::poll (windows.rs:268-272):                *)
(*   duration.as_millis() as u32, or INFINITE for None.                    *)
(* as_millis() is a u128 and the bound a u32; both are written in 16-bit   *)
(* limbs, most significant first, so that every bit of them is kept.       *)
(***************************************************************************)
LimbBase == 65536

(* The limbs of the 32-bit pattern of x, x given as a signed 32-bit value. *)
U32Bits(x) == <<(x \div LimbBase) % LimbBase, x % LimbBase>>

DurationOf(millis) == [some |-> TRUE, millis |-> millis]

(* Durations around the edges of 16, 31 and 32 bits, up to 2^33 + 2^32 - 1 ms. *)
HighLimbs == {0, 1, 2}

MidLimbs == {0, 1, 32767, 32768, 65534, 65535}

LowLimbs == {0, 1, 5, 1000, 65534, 65535}

PollDurations ==
    {NoDuration} \cup
    {DurationOf(<<h, m, l>>) : h \in HighLimbs, m \in MidLimbs, l \in LowLimbs}

(* 'as u32' on a u128: the low 32 bits. *)
as_u32(millis) == <<millis[2], millis[3]>>

(* windows.rs:268-272 *)
dw_millis_of(duration) ==
    IF duration.some THEN as_u32(duration.millis) ELSE U32Bits(INFINITE)

(* windows.rs:267-272 -- poll is called with a timeout and computes dw_millis. *)
poll_dw_millis(duration) ==
    /\ ~waitBound.done
    /\ pollTimeout' = duration
    /\ waitBound' = [done |-> TRUE, bits |-> dw_millis_of(duration)]

MillisFrame ==
    UNCHANGED <<unixVars, captureVars, keyVars, mouseVars, winPollVars, cursorVars,
                lockVars, asyncVars, readVars, batchVars, rawVars>>

InitMillis == UnixAtRest /\ WindowsAtRest

NextMillis == (\E duration \in PollDurations : poll_dw_millis(duration)) /\ MillisFrame

SpecMillis == InitMillis /\ [][NextMillis]_vars

(* a < b for numbers given as limb sequences of one length. *)
RECURSIVE LimbsLess(_, _)
LimbsLess(a, b) ==
    IF a = <<>> THEN FALSE
    ELSE IF Head(a) # Head(b) THEN Head(a) < Head(b)
    ELSE LimbsLess(Tail(a), Tail(b))

(* C38 as stated: for a finite timeout the bound equals the timeout's
   milliseconds, is not INFINITE and is not smaller than the timeout; only
   None gives INFINITE. *)
C38_WaitBoundIsTimeout ==
    waitBound.done =>
        IF pollTimeout.some
        THEN /\ <<0>> \o waitBound.bits = pollTimeout.millis
             /\ waitBound.bits # U32Bits(INFINITE)
             /\ ~LimbsLess(<<0>> \o waitBound.bits, pollTimeout.millis)
        ELSE waitBound.bits = U32Bits(INFINITE)

(* poll(Some(4_294_967_295 ms)): the bound is the INFINITE pattern. *)
C38_Witness ==
    /\ pollTimeout = DurationOf(<<0, 65535, 65535>>)
    /\ waitBound = [done |-> TRUE, bits |-> <<65535, 65535>>]

(***************************************************************************)
(* cursor::position (cursor/sys/unix.rs:14-27) around read_position_raw.   *)
(* enable_raw_mode, disable_raw_mode and is_raw_mode_enabled are           *)
(* utils::sys::unix functions known by their interface: each of the first  *)
(* two switches the mode and returns Ok, or fails and leaves the mode.     *)
(***************************************************************************)
PositionResult(r, why) == [result |-> r.result, x |-> r.x, y |-> r.y, why |-> why]

(* unix.rs:14-24 -- position up to the call of read_position_raw: directly when
   raw mode is on, else through read_position, whose 'enable_raw_mode()?'
   returns on failure. *)
position_enter(enable) ==
    /\ posPc = "idle"
    /\ cursorPc = "idle"
    /\ rawAtEntry' = rawMode
    /\ IF rawMode
       THEN /\ posPc' = "query"
            /\ viaReadPosition' = FALSE
            /\ UNCHANGED <<rawMode, posRet>>
       ELSE IF enable = "ok"
       THEN /\ rawMode' = TRUE
            /\ posPc' = "query"
            /\ viaReadPosition' = TRUE
            /\ UNCHANGED posRet
       ELSE /\ posPc' = "done"
            /\ posRet' = PositionResult(PositionErr, "enable_raw_mode")
            /\ UNCHANGED <<rawMode, viaReadPosition>>

(* read_position returning the query's error before it disables raw mode. *)
position_exit_error_first(disable) ==
    /\ posPc = "query"
    /\ cursorPc = "done"
    /\ posPc' = "done"
    /\ IF ~viaReadPosition \/ positionRet.result = "Err"
       THEN posRet' = PositionResult(positionRet, "query") /\ UNCHANGED rawMode
       ELSE IF disable = "ok"
       THEN posRet' = PositionResult(positionRet, "query") /\ rawMode' = FALSE
       ELSE posRet' = PositionResult(PositionErr, "disable_raw_mode") /\ UNCHANGED rawMode
    /\ UNCHANGED <<viaReadPosition, rawAtEntry>>

(* unix.rs:16, 24-26 -- read_position_raw has returned pos: position returns it,
   or read_position runs 'disable_raw_mode()?' and then returns it. *)
position_exit(disable) ==
    /\ posPc = "query"
    /\ cursorPc = "done"
    /\ posPc' = "done"
    /\ IF ~viaReadPosition
       THEN posRet' = PositionResult(positionRet, "query") /\ UNCHANGED rawMode
       ELSE IF disable = "ok"
       THEN posRet' = PositionResult(positionRet, "query") /\ rawMode' = FALSE
       ELSE posRet' = PositionResult(PositionErr, "disable_raw_mode") /\ UNCHANGED rawMode
    /\ UNCHANGED <<viaReadPosition, rawAtEntry>>

PositionFrame ==
    UNCHANGED <<unixVars, captureVars, keyVars, mouseVars, winPollVars, lockVars,
                asyncVars, readVars, batchVars, millisVars>>

InitPosition ==
    /\ UnixAtRest
    /\ CaptureAtStart
    /\ consoleMode = ENABLE_MOUSE_MODE
    /\ keyRecord = NoKeyRecord
    /\ keyResult = NotDecoded
    /\ MouseAtRest
    /\ WinPollAtRest
    /\ CursorAtRest
    /\ LockAtRest
    /\ AsyncAtRest
    /\ ReadAtRest
    /\ BatchAtRest
    /\ MillisAtRest
    /\ PositionAtStart
    /\ rawMode \in BOOLEAN

NextPosition ==
    \/ (\E ev \in InputEvents : Arrive(ev)) /\ UNCHANGED rawVars /\ PositionFrame
    \/ (\E enable \in {"ok", "err"} : position_enter(enable))
            /\ UNCHANGED cursorVars /\ PositionFrame
    \/ /\ posPc = "query"
       /\ \E outcome \in {"ok", "write_err", "flush_err"} : read_position_raw_write(outcome)
       /\ UNCHANGED rawVars /\ PositionFrame
    \/ read_position_raw_next /\ UNCHANGED rawVars /\ PositionFrame
    \/ (\E disable \in {"ok", "err"} : position_exit(disable))
            /\ UNCHANGED cursorVars /\ PositionFrame

SpecPosition == InitPosition /\ [][NextPosition]_vars

(* C39 as stated: raw mode is on during the query, and when position has
   returned raw mode is as it was at entry. *)
C39_Original ==
    /\ posPc = "query" => rawMode
    /\ posPc = "done" => rawMode = rawAtEntry

(* C39: raw mode is on during the query.  When position has returned, raw mode
   is as it was at entry, whether the query gave a position or an error,
   unless disable_raw_mode failed: then raw mode, off at entry, is still on
   and position has returned that failure instead of the query's result.  When
   enable_raw_mode failed, raw mode was never switched on and no query was
   made. *)
C39_RawModeRestored ==
    /\ posPc = "query" => rawMode
    /\ posPc = "done" =>
           IF posRet.why = "disable_raw_mode"
           THEN rawMode /\ ~rawAtEntry /\ posRet.result = "Err"
           ELSE rawMode = rawAtEntry
    /\ (posPc = "done" /\ posRet.why = "enable_raw_mode") =>
           (~rawMode /\ stdoutWrites = 0 /\ cursorPc = "idle")
    /\ (posPc = "done" /\ posRet.why = "query") =>
           (posRet.result = positionRet.result /\ posRet.x = positionRet.x
            /\ posRet.y = positionRet.y)

(* Raw mode was off; the query failed to write its sequence; position returned
   the error and raw mode is off again. *)
C39_Witness ==
    /\ posPc = "done"
    /\ ~rawAtEntry
    /\ viaReadPosition
    /\ positionRet = PositionErr
    /\ posRet = PositionResult(PositionErr, "query")
    /\ ~rawMode

====
